---- MODULE Spec2Model ----
(***************************************************************************)
(* riley_cms request plane: the Git Smart HTTP gateway (git_handler,       *)
(* GitBackend::run_cgi, GitCgiCompletion::wait, the post-push task), the   *)
(* content index cell (RileyCms::refresh and the read operations) and the  *)
(* HTTP API handlers with their authentication middleware.                 *)
(*                                                                         *)
(* Text (paths, header values, tokens, error messages) is a sequence of    *)
(* code points; Option<T> is a sequence of length 0 (None) or 1 (Some).    *)
(***************************************************************************)
EXTENDS Integers, Sequences, FiniteSets, TLC

\* ------------------------------------------------------------------------
\* Option and text helpers (Rust std: Option, str)
\* ------------------------------------------------------------------------

None == <<>>

Some(x) == <<x>>

IsSome(o) == Len(o) = 1

Unwrap(o) == o[1]

Tail_from(s, i) == SubSeq(s, i, Len(s))

starts_with(s, p) == Len(p) <= Len(s) /\ SubSeq(s, 1, Len(p)) = p

\* str::strip_prefix
strip_prefix(s, p) == IF starts_with(s, p) THEN Some(Tail_from(s, Len(p) + 1)) ELSE None

\* str::contains(&str)
contains(s, p) == \E i \in 0..(Len(s) - Len(p)) : SubSeq(s, i + 1, i + Len(p)) = p

\* char::is_whitespace (the Unicode White_Space property)
White_Space == {9, 10, 11, 12, 13, 32, 133, 160, 5760, 8232, 8233, 8239, 8287, 12288}
                 \cup (8192..8202)

is_whitespace(c) == c \in White_Space

\* str::trim
trim(s) ==
    LET keep == {i \in 1..Len(s) : ~is_whitespace(s[i])}
    IN  IF keep = {} THEN <<>>
        ELSE LET lo == CHOOSE i \in keep : \A j \in keep : i <= j
                 hi == CHOOSE i \in keep : \A j \in keep : j <= i
             IN  SubSeq(s, lo, hi)

\* str::split_once(char): None, or Some(<<before, after>>) at the first occurrence
split_once(s, c) ==
    LET at == {i \in 1..Len(s) : s[i] = c}
    IN  IF at = {} THEN None
        ELSE LET i == CHOOSE k \in at : \A j \in at : k <= j
             IN  Some(<<SubSeq(s, 1, i - 1), Tail_from(s, i + 1)>>)

\* char::is_ascii_alphanumeric
is_ascii_alphanumeric(c) == c \in (48..57) \cup (65..90) \cup (97..122)

\* u64 -> decimal text (Display for integers)
RECURSIVE to_string(_)
to_string(n) == IF n < 10 THEN <<48 + n>> ELSE Append(to_string(n \div 10), 48 + (n % 10))

\* ------------------------------------------------------------------------
\* base64 (STANDARD engine: padded, canonical) and UTF-8 validation
\* ------------------------------------------------------------------------

\* the 6-bit value of a base64 alphabet character, -1 when outside the alphabet
b64_value(c) ==
    IF c \in 65..90 THEN c - 65
    ELSE IF c \in 97..122 THEN c - 97 + 26
    ELSE IF c \in 48..57 THEN c - 48 + 52
    ELSE IF c = 43 THEN 62
    ELSE IF c = 47 THEN 63
    ELSE -1

b64_char(v) ==
    IF v < 26 THEN 65 + v
    ELSE IF v < 52 THEN 97 + (v - 26)
    ELSE IF v < 62 THEN 48 + (v - 52)
    ELSE IF v = 62 THEN 43
    ELSE 47

\* one group of four characters: [ok, bytes]; last says whether padding is allowed
b64_decode_quad(q, last) ==
    LET v1 == b64_value(q[1])
        v2 == b64_value(q[2])
        v3 == b64_value(q[3])
        v4 == b64_value(q[4])
        b1 == (v1 * 4) + (v2 \div 16)
        b2 == ((v2 % 16) * 16) + (v3 \div 4)
        b3 == ((v3 % 4) * 64) + v4
    IN  IF v1 < 0 \/ v2 < 0 THEN [ok |-> FALSE, bytes |-> <<>>]
        ELSE IF q[3] = 61 /\ q[4] = 61
            THEN [ok |-> last /\ v2 % 16 = 0, bytes |-> <<b1>>]
        ELSE IF v3 < 0 THEN [ok |-> FALSE, bytes |-> <<>>]
        ELSE IF q[4] = 61
            THEN [ok |-> last /\ v3 % 4 = 0, bytes |-> <<b1, b2>>]
        ELSE IF v4 < 0 THEN [ok |-> FALSE, bytes |-> <<>>]
        ELSE [ok |-> TRUE, bytes |-> <<b1, b2, b3>>]

RECURSIVE b64_decode_groups(_)
b64_decode_groups(s) ==
    IF s = <<>> THEN [ok |-> TRUE, bytes |-> <<>>]
    ELSE LET head == b64_decode_quad(SubSeq(s, 1, 4), Len(s) = 4)
             rest == b64_decode_groups(Tail_from(s, 5))
         IN  [ok |-> head.ok /\ rest.ok, bytes |-> head.bytes \o rest.bytes]

\* base64::engine::general_purpose::STANDARD.decode: Result<Vec<u8>, _>
base64_decode(s) ==
    IF Len(s) % 4 # 0 THEN [ok |-> FALSE, bytes |-> <<>>]
    ELSE LET r == b64_decode_groups(s)
         IN  IF r.ok THEN r ELSE [ok |-> FALSE, bytes |-> <<>>]

\* what a Git client does to build the header value: STANDARD.encode
RECURSIVE base64_encode(_)
base64_encode(b) ==
    IF b = <<>> THEN <<>>
    ELSE IF Len(b) = 1 THEN
        <<b64_char(b[1] \div 4), b64_char((b[1] % 4) * 16), 61, 61>>
    ELSE IF Len(b) = 2 THEN
        <<b64_char(b[1] \div 4), b64_char(((b[1] % 4) * 16) + (b[2] \div 16)),
          b64_char((b[2] % 16) * 4), 61>>
    ELSE <<b64_char(b[1] \div 4), b64_char(((b[1] % 4) * 16) + (b[2] \div 16)),
           b64_char(((b[2] % 16) * 4) + (b[3] \div 64)), b64_char(b[3] % 64)>>
         \o base64_encode(Tail_from(b, 4))

is_continuation(b) == b \in 128..191

\* String::from_utf8 succeeds exactly on well-formed UTF-8
RECURSIVE is_utf8(_)
is_utf8(b) ==
    IF b = <<>> THEN TRUE
    ELSE IF b[1] < 128 THEN is_utf8(Tail_from(b, 2))
    ELSE IF b[1] \in 194..223 THEN
        Len(b) >= 2 /\ is_continuation(b[2]) /\ is_utf8(Tail_from(b, 3))
    ELSE IF b[1] \in 224..239 THEN
        /\ Len(b) >= 3
        /\ is_continuation(b[2])
        /\ is_continuation(b[3])
        /\ (b[1] = 224 => b[2] >= 160)
        /\ (b[1] = 237 => b[2] <= 159)
        /\ is_utf8(Tail_from(b, 4))
    ELSE IF b[1] \in 240..244 THEN
        /\ Len(b) >= 4
        /\ is_continuation(b[2])
        /\ is_continuation(b[3])
        /\ is_continuation(b[4])
        /\ (b[1] = 240 => b[2] >= 144)
        /\ (b[1] = 244 => b[2] <= 143)
        /\ is_utf8(Tail_from(b, 5))
    ELSE FALSE

\* HeaderValue::to_str succeeds when every byte is visible ASCII or a tab
header_to_str_ok(v) == \A i \in 1..Len(v) : v[i] \in 32..126 \/ v[i] = 9

\* ------------------------------------------------------------------------
\* Configuration values and the two authentication paths
\* ------------------------------------------------------------------------

\* ConfigValue::resolve: "env:NAME" reads the process environment (an error
\* when NAME is unset), any other text is the literal itself
resolve(value, environment) ==
    LET var_name == strip_prefix(value, <<101, 110, 118, 58>>)  \* "env:"
    IN  IF IsSome(var_name)
        THEN IF Unwrap(var_name) \in DOMAIN environment
             THEN [ok |-> TRUE, val |-> environment[Unwrap(var_name)]]
             ELSE [ok |-> FALSE, val |-> <<>>]
        ELSE [ok |-> TRUE, val |-> value]

\* Sha256::digest, taken as collision free: the digest determines its input
Sha256_digest(bytes) == [sha256 |-> bytes]

\* subtle::ConstantTimeEq::ct_eq on two digests
ct_eq(a, b) == a = b

Public == "Public"

Admin == "Admin"

\* auth_middleware: the AuthStatus it inserts into the request extensions
auth_middleware(authorization, cfg, environment) ==
    IF IsSome(cfg.auth) /\ IsSome(Unwrap(cfg.auth).api_token)
    THEN LET expected_token == resolve(Unwrap(Unwrap(cfg.auth).api_token), environment)
         IN  IF ~expected_token.ok THEN Public
             ELSE IF IsSome(authorization) /\ header_to_str_ok(Unwrap(authorization))
             THEN LET provided_token ==
                          strip_prefix(Unwrap(authorization),
                                       <<66, 101, 97, 114, 101, 114, 32>>)  \* "Bearer "
                  IN  IF IsSome(provided_token)
                         /\ ct_eq(Sha256_digest(trim(Unwrap(provided_token))),
                                  Sha256_digest(expected_token.val))
                      THEN Admin
                      ELSE Public
             ELSE Public
    ELSE Public

\* a mutant of check_git_basic_auth: the username must be "git"
check_git_basic_auth_checks_username(authorization, cfg, environment) ==
    /\ IsSome(cfg.auth)
    /\ IsSome(Unwrap(cfg.auth).git_token)
    /\ resolve(Unwrap(Unwrap(cfg.auth).git_token), environment).ok
    /\ resolve(Unwrap(Unwrap(cfg.auth).git_token), environment).val # <<>>
    /\ IsSome(authorization)
    /\ LET encoded == strip_prefix(Unwrap(authorization), <<66, 97, 115, 105, 99, 32>>)
       IN  /\ IsSome(encoded)
           /\ base64_decode(Unwrap(encoded)).ok
           /\ LET credentials == split_once(base64_decode(Unwrap(encoded)).bytes, 58)
              IN  /\ IsSome(credentials)
                  /\ Unwrap(credentials)[1] = <<103, 105, 116>>
                  /\ Unwrap(credentials)[2] =
                         resolve(Unwrap(Unwrap(cfg.auth).git_token), environment).val

\* check_git_basic_auth: TRUE when the Basic password is the resolved git_token
check_git_basic_auth(authorization, cfg, environment) ==
    IF ~IsSome(cfg.auth) THEN FALSE                      \* no auth configured
    ELSE IF ~IsSome(Unwrap(cfg.auth).git_token) THEN FALSE  \* no git_token configured
    ELSE LET expected_token == resolve(Unwrap(Unwrap(cfg.auth).git_token), environment)
         IN  IF ~expected_token.ok THEN FALSE
             ELSE IF expected_token.val = <<>> THEN FALSE   \* empty token: auth disabled
             ELSE IF ~IsSome(authorization) THEN FALSE
             ELSE IF ~header_to_str_ok(Unwrap(authorization)) THEN FALSE
             ELSE LET encoded == strip_prefix(Unwrap(authorization),
                                              <<66, 97, 115, 105, 99, 32>>)  \* "Basic "
                  IN  IF ~IsSome(encoded) THEN FALSE
                      ELSE LET decoded == base64_decode(Unwrap(encoded))
                           IN  IF ~decoded.ok THEN FALSE
                               ELSE IF ~is_utf8(decoded.bytes) THEN FALSE
                               ELSE LET credentials == split_once(decoded.bytes, 58)  \* ':'
                                    IN  IF IsSome(credentials)
                                        THEN ct_eq(Sha256_digest(Unwrap(credentials)[2]),
                                                   Sha256_digest(expected_token.val))
                                        ELSE FALSE

\* is_valid_git_path: no "..", and only [A-Za-z0-9] and "-_./=?&+"
is_valid_git_path(path) ==
    IF contains(path, <<46, 46>>) THEN FALSE
    ELSE \A i \in 1..Len(path) :
            \/ is_ascii_alphanumeric(path[i])
            \/ path[i] \in {45, 95, 46, 47, 61, 63, 38, 43}

\* ------------------------------------------------------------------------
\* CGI header block (read_cgi_headers) and git_handler's responses
\* ------------------------------------------------------------------------

\* Maximum size of CGI headers before we give up (16 KB)
MAX_CGI_HEADER_SIZE == 16384

\* str::trim_end_matches(['\r', '\n'])
RECURSIVE trim_end_matches_crlf(_)
trim_end_matches_crlf(s) ==
    IF s # <<>> /\ s[Len(s)] \in {13, 10}
    THEN trim_end_matches_crlf(SubSeq(s, 1, Len(s) - 1))
    ELSE s

\* str::to_lowercase on ASCII text
to_lowercase(s) == [i \in 1..Len(s) |-> IF s[i] \in 65..90 THEN s[i] + 32 ELSE s[i]]

\* str::split_whitespace().next()
first_word(s) ==
    LET t == trim(s)
        ws == {i \in 1..Len(t) : is_whitespace(t[i])}
    IN  IF t = <<>> THEN None
        ELSE IF ws = {} THEN Some(t)
        ELSE Some(SubSeq(t, 1, (CHOOSE i \in ws : \A j \in ws : i <= j) - 1))

RECURSIVE digits_value(_)
digits_value(d) ==
    IF d = <<>> THEN 0 ELSE (digits_value(SubSeq(d, 1, Len(d) - 1)) * 10) + (d[Len(d)] - 48)

\* str::parse::<u16>: an optional '+', then digits, at most 65535
parse_u16(s) ==
    LET d == IF s # <<>> /\ s[1] = 43 THEN Tail(s) ELSE s
    IN  IF d = <<>> \/ Len(d) > 5 \/ \E i \in 1..Len(d) : d[i] \notin 48..57
        THEN [ok |-> FALSE, val |-> 0]
        ELSE [ok |-> digits_value(d) <= 65535, val |-> digits_value(d)]

\* Display of Error::Git(msg)
Error_Git(msg) == <<71, 105, 116, 32, 101, 114, 114, 111, 114, 58, 32>> \o msg  \* "Git error: "

\* The loop of read_cgi_headers over the lines read_line returns. A line is
\* [text, pad]: its bytes, terminator included, and pad further bytes of
\* header value that the model does not spell out. No line left is EOF.
RECURSIVE read_cgi_headers_loop(_, _, _, _)
read_cgi_headers_loop(lines, status, headers, total_header_bytes) ==
    IF lines = <<>> THEN [ok |-> TRUE, status |-> status, headers |-> headers, err |-> <<>>]
    ELSE
    LET line == Head(lines)
        total == total_header_bytes + Len(line.text) + line.pad
        trimmed == trim_end_matches_crlf(line.text)
        kv == split_once(trimmed, 58)  \* ':'
    IN  IF ~is_utf8(line.text)
        THEN [ok |-> FALSE, status |-> status, headers |-> headers,
              err |-> Error_Git(
                  \* "Failed to read CGI headers: stream did not contain valid UTF-8"
                  <<70, 97, 105, 108, 101, 100, 32, 116, 111, 32, 114, 101, 97, 100, 32, 67,
                    71, 73, 32, 104, 101, 97, 100, 101, 114, 115, 58, 32, 115, 116, 114, 101,
                    97, 109, 32, 100, 105, 100, 32, 110, 111, 116, 32, 99, 111, 110, 116, 97,
                    105, 110, 32, 118, 97, 108, 105, 100, 32, 85, 84, 70, 45, 56>>)]
        ELSE IF total > MAX_CGI_HEADER_SIZE
        THEN [ok |-> FALSE, status |-> status, headers |-> headers,
              err |-> Error_Git(
                  \* "CGI headers too large (>"
                  <<67, 71, 73, 32, 104, 101, 97, 100, 101, 114, 115, 32, 116, 111, 111, 32,
                    108, 97, 114, 103, 101, 32, 40, 62>>
                  \o to_string(MAX_CGI_HEADER_SIZE)
                  \* " bytes). Possible malformed response."
                  \o <<32, 98, 121, 116, 101, 115, 41, 46, 32, 80, 111, 115, 115, 105, 98,
                       108, 101, 32, 109, 97, 108, 102, 111, 114, 109, 101, 100, 32, 114, 101,
                       115, 112, 111, 110, 115, 101, 46>>)]
        ELSE IF trimmed = <<>>
        THEN [ok |-> TRUE, status |-> status, headers |-> headers, err |-> <<>>]
        ELSE IF ~IsSome(kv)
        THEN read_cgi_headers_loop(Tail(lines), status, headers, total)
        ELSE
        LET key == to_lowercase(trim(Unwrap(kv)[1]))
            value == trim(Unwrap(kv)[2])
            code_str == first_word(value)
        IN  IF /\ key = <<115, 116, 97, 116, 117, 115>>  \* "status"
               /\ IsSome(code_str)
               /\ parse_u16(Unwrap(code_str)).ok
            THEN read_cgi_headers_loop(Tail(lines), parse_u16(Unwrap(code_str)).val,
                                       headers, total)
            ELSE read_cgi_headers_loop(Tail(lines), status, (key :> value) @@ headers, total)

\* a mutant of read_cgi_headers: EOF before the separator line is an error
read_cgi_headers_requires_separator(lines) ==
    IF \A i \in 1..Len(lines) : trim_end_matches_crlf(lines[i].text) # <<>>
    THEN [ok |-> FALSE, status |-> 200, headers |-> <<>>,
          err |-> Error_Git(
              \* "Failed to read CGI headers: unexpected end of file"
              <<70, 97, 105, 108, 101, 100, 32, 116, 111, 32, 114, 101, 97, 100, 32, 67, 71, 73,
                32, 104, 101, 97, 100, 101, 114, 115, 58, 32, 117, 110, 101, 120, 112, 101, 99,
                116, 101, 100, 32, 101, 110, 100, 32, 111, 102, 32, 102, 105, 108, 101>>)]
    ELSE read_cgi_headers_loop(lines, 200, <<>>, 0)

\* read_cgi_headers: status 200 unless a Status line says otherwise
read_cgi_headers(lines) == read_cgi_headers_loop(lines, 200, <<>>, 0)

\* read_cgi_headers returns once the block ends, grows too large, or stdout closes
headers_complete(lines, closed) ==
    \/ closed
    \/ \E i \in 1..Len(lines) : trim_end_matches_crlf(lines[i].text) = <<>> /\ lines[i].pad = 0
    \/ ~read_cgi_headers(lines).ok

\* StatusCode::from_u16(status).unwrap_or(StatusCode::OK)
status_from_u16(status) == IF status \in 100..999 THEN status ELSE 200

\* HeaderName::from_str on a lowercased key: a non-empty token
header_name_ok(key) ==
    /\ key # <<>>
    /\ \A i \in 1..Len(key) :
          \/ key[i] \in (48..57) \cup (97..122)
          \/ key[i] \in {33, 35, 36, 37, 38, 39, 42, 43, 45, 46, 94, 95, 96, 124, 126}

\* HeaderValue::from_str: visible ASCII, space and tab
header_value_ok(value) == \A i \in 1..Len(value) : value[i] \in 32..126 \/ value[i] = 9

content_type == <<99, 111, 110, 116, 101, 110, 116, 45, 116, 121, 112, 101>>  \* "content-type"

application_json ==
    \* "application/json"
    <<97, 112, 112, 108, 105, 99, 97, 116, 105, 111, 110, 47, 106, 115, 111, 110>>

text_plain_utf8 ==
    \* "text/plain; charset=utf-8"
    <<116, 101, 120, 116, 47, 112, 108, 97, 105, 110, 59, 32, 99, 104, 97, 114, 115, 101,
      116, 61, 117, 116, 102, 45, 56>>

\* (status, Json(ErrorResponse { error })).into_response()
json_error(status, error) ==
    [status |-> status,
     headers |-> (content_type :> application_json),
     body |-> [kind |-> "json_error", text |-> error]]

Git_operation_failed ==
    \* "Git operation failed"
    <<71, 105, 116, 32, 111, 112, 101, 114, 97, 116, 105, 111, 110, 32, 102, 97, 105, 108,
      101, 100>>

\* git_handler's Err(e) arm: 413 when the error text contains "exceeds maximum"
git_error_response(error_msg) ==
    IF contains(error_msg,
                \* "exceeds maximum"
                <<101, 120, 99, 101, 101, 100, 115, 32, 109, 97, 120, 105, 109, 117, 109>>)
    THEN json_error(413, error_msg)
    ELSE json_error(500, Git_operation_failed)

\* git_handler's Ok(cgi_response) arm: the CGI status and the headers that parse
git_cgi_response(cgi_headers) ==
    [status |-> status_from_u16(cgi_headers.status),
     headers |-> [k \in {n \in DOMAIN cgi_headers.headers :
                            header_name_ok(n) /\ header_value_ok(cgi_headers.headers[n])}
                    |-> cgi_headers.headers[k]],
     body |-> [kind |-> "stream", text |-> <<>>]]

bad_request_response ==
    \* "Invalid path"
    json_error(400, <<73, 110, 118, 97, 108, 105, 100, 32, 112, 97, 116, 104>>)

unauthorized_response ==
    [status |-> 401,
     headers |->
        \* "www-authenticate": "Basic realm=\"Git\""
        (<<119, 119, 119, 45, 97, 117, 116, 104, 101, 110, 116, 105, 99, 97, 116, 101>>
            :> <<66, 97, 115, 105, 99, 32, 114, 101, 97, 108, 109, 61, 34, 71, 105, 116, 34>>)
        @@ (content_type :> text_plain_utf8),
     body |-> [kind |-> "text",
               \* "Authentication required"
               text |-> <<65, 117, 116, 104, 101, 110, 116, 105, 99, 97, 116, 105, 111, 110,
                          32, 114, 101, 113, 117, 105, 114, 101, 100>>]]

repo_not_found_response ==
    \* "Git repository not found"
    json_error(404, <<71, 105, 116, 32, 114, 101, 112, 111, 115, 105, 116, 111, 114, 121, 32,
                      110, 111, 116, 32, 102, 111, 117, 110, 100>>)

\* a mutant of git_handler_preflight: credentials are checked before the path
git_handler_preflight_auth_first(path, authorization, cfg, environment, repo_ok) ==
    IF ~check_git_basic_auth(authorization, cfg, environment)
    THEN [outcome |-> "unauthorized", auth_checked |-> TRUE]
    ELSE IF ~is_valid_git_path(path)
    THEN [outcome |-> "bad_request", auth_checked |-> TRUE]
    ELSE IF ~repo_ok
    THEN [outcome |-> "not_found", auth_checked |-> TRUE]
    ELSE [outcome |-> "run_cgi", auth_checked |-> TRUE]

\* git_handler up to run_cgi: path validation, then Basic auth, then the repository
\* check. auth_checked records whether check_git_basic_auth was called.
git_handler_preflight(path, authorization, cfg, environment, repo_ok) ==
    IF ~is_valid_git_path(path)
    THEN [outcome |-> "bad_request", auth_checked |-> FALSE]
    ELSE IF ~check_git_basic_auth(authorization, cfg, environment)
    THEN [outcome |-> "unauthorized", auth_checked |-> TRUE]
    ELSE IF ~repo_ok
    THEN [outcome |-> "not_found", auth_checked |-> TRUE]
    ELSE [outcome |-> "run_cgi", auth_checked |-> TRUE]

\* let is_write_operation = path.contains("git-receive-pack")
is_write_operation(path) ==
    contains(path, <<103, 105, 116, 45, 114, 101, 99, 101, 105, 118, 101, 45, 112, 97, 99,
                     107>>)

\* ------------------------------------------------------------------------
\* Bounds of the model
\* ------------------------------------------------------------------------

\* body chunks one request may deliver
MaxChunks == 2

\* length of one body chunk
MaxChunkLen == 2

\* largest configured [git] max_body_size
MaxBodyCfg == 1

\* ------------------------------------------------------------------------
\* State
\* ------------------------------------------------------------------------

VARIABLES
    config,         \* RileyCmsConfig: auth section and [git] max_body_size
    env,            \* the server process's environment (for "env:NAME" values)
    request,        \* the request being served
    response,       \* Option: the response git_handler returned
    wire,           \* Option: the response the server sent, after the layers of serve
    handler,        \* git_handler's position
    child,          \* the git-http-backend process and what it wrote to stdout
    stdin_task,     \* run_cgi's stdin-feeder task
    stderr_task,    \* run_cgi's stderr-collector task
    completion,     \* GitCgiCompletion handed to the post-push task
    post_push,      \* the task git_handler spawns to reap the child
    auth_checks,    \* calls of check_git_basic_auth
    reloads,        \* calls of RileyCms::refresh by the post-push task
    webhooks_fired, \* calls of RileyCms::fire_webhooks by the post-push task
    content_tree,   \* the content repository's work tree: the number of pushes it holds
    cache,          \* RileyCms.cache: the ContentCache value inside the RwLock
    cache_lock,     \* RileyCms.cache: the RwLock's holders
    refresh_task,   \* per push, the post-push task's call of RileyCms::refresh
    reader,         \* per reader, one read operation of RileyCms
    index,          \* the ContentCache the API handlers read
    now,            \* Utc::now()
    api_request,    \* the API request being served
    auth_status,    \* the AuthStatus auth_middleware put into the request extensions
    api_response,   \* Option: the response of the API handler
    api_pc,         \* the API request's position: idle, handler, done
    fire,           \* RileyCms::fire_webhooks: idle, or returned
    webhook_tasks,  \* per URL, the task fire_webhooks spawned for send_webhook
    repo,           \* the content directory of the work tree: its sub-directories and files
    content_cache,  \* the ContentCache loaded from the content directory
    call,           \* the read method of ContentCache being called, with its result
    checked_ip,     \* the IpAddr handed to security::is_safe_ip
    ip_safe         \* Option: what is_safe_ip returned for it

gitVars ==
    <<request, response, wire, handler, child, stdin_task, stderr_task, completion, post_push,
      auth_checks, reloads, webhooks_fired>>

indexVars == <<content_tree, cache, cache_lock, refresh_task, reader>>

apiVars == <<index, now, api_request, auth_status, api_response, api_pc>>

webhookVars == <<fire, webhook_tasks>>

contentVars == <<repo, content_cache, call>>

securityVars == <<checked_ip, ip_safe>>

vars == <<config, env, gitVars, indexVars, apiVars, webhookVars, contentVars, securityVars>>

\* ------------------------------------------------------------------------
\* Git requests a client may send
\* ------------------------------------------------------------------------

GitPaths ==
    {<<103, 105, 116, 45, 114, 101, 99, 101, 105, 118, 101, 45, 112, 97, 99, 107>>,
        \* "git-receive-pack"
     <<105, 110, 102, 111, 47, 114, 101, 102, 115>>,   \* "info/refs"
     <<46, 46, 47, 101, 116, 99>>,                      \* "../etc"
     <<59, 114, 109, 32, 45, 114, 102, 32, 47>>,        \* ";rm -rf /"
     <<97, 46, 46, 98>>}                                \* "a..b"

Usernames == {<<103, 105, 116>>, <<98, 111, 98>>}       \* "git", "bob"

Passwords == {<<>>, <<107>>, <<120>>}                   \* "", "k", "x"

\* "Basic " base64(user ":" pass)
basic_header(user, pass) ==
    <<66, 97, 115, 105, 99, 32>> \o base64_encode(user \o <<58>> \o pass)

\* Authorization headers with the credentials they carry: cred is what the client
\* meant, authorization is what arrives
GitAuthorizations ==
    {[cred |-> [kind |-> "absent", user |-> <<>>, pass |-> <<>>], authorization |-> None]}
    \cup {[cred |-> [kind |-> "basic", user |-> u, pass |-> p],
           authorization |-> Some(basic_header(u, p))] : u \in Usernames, p \in Passwords}
    \cup {[cred |-> [kind |-> "malformed", user |-> <<>>, pass |-> <<>>],
           authorization |-> Some(h)] :
            h \in {<<66, 101, 97, 114, 101, 114, 32, 107>>,          \* "Bearer k"
                   <<66, 97, 115, 105, 99, 32, 33, 33, 33, 33>>,     \* "Basic !!!!"
                   <<66, 97, 115, 105, 99, 32>> \o base64_encode(<<255, 58, 107>>),
                                                                     \* not UTF-8
                   <<66, 97, 115, 105, 99, 32>> \o base64_encode(<<107>>),
                                                                     \* no ':'
                   <<66, 97, 115, 105, 99, 32, 90, 50, 108, 48, 79, 109, 115>>,
                                                                     \* padding dropped
                   <<98, 97, 115, 105, 99, 32>> \o base64_encode(<<103, 105, 116, 58, 107>>),
                                                                     \* "basic ..."
                   <<66, 97, 115, 105, 99, 32, 233>>}}               \* not ASCII

\* a configuration and the environment it is resolved in: no [auth] section, no
\* git_token, git_token "k", git_token "", and git_token "env:T" with T unset,
\* T="" and T="k"
GitAuthSetups ==
    {[auth |-> None, env |-> <<>>],
     [auth |-> Some([git_token |-> None, api_token |-> None]), env |-> <<>>],
     [auth |-> Some([git_token |-> Some(<<107>>), api_token |-> None]), env |-> <<>>],
     [auth |-> Some([git_token |-> Some(<<>>), api_token |-> None]), env |-> <<>>]}
    \cup {[auth |-> Some([git_token |-> Some(<<101, 110, 118, 58, 84>>), api_token |-> None]),
           env |-> e] : e \in {<<>>, (<<84>> :> <<>>), (<<84>> :> <<107>>)}}

\* [git] sections: none, or max_body_size up to MaxBodyCfg
GitSections == {None} \cup {Some([max_body_size |-> n]) : n \in 0..MaxBodyCfg}

\* "Status: 403 Forbidden\n" and no further line: stdout closes before the
\* empty separator line
status_line_then_eof ==
    <<[text |-> <<83, 116, 97, 116, 117, 115, 58, 32, 52, 48, 51, 32, 70, 111, 114, 98, 105,
                  100, 100, 101, 110, 10>>, pad |-> 0]>>

\* header blocks a child may write: with a Status line (2xx, 403) or without, a
\* Status line with no separator after it, a block above the size limit, a
\* block that is not UTF-8, a block that sets X-Frame-Options itself
CgiHeaderBlocks ==
    {<<[text |-> <<83, 116, 97, 116, 117, 115, 58, 32, 50, 48, 48, 32, 79, 75, 13, 10>>,
        pad |-> 0],                                     \* "Status: 200 OK\r\n"
       [text |-> <<13, 10>>, pad |-> 0]>>,
     <<[text |-> <<67, 111, 110, 116, 101, 110, 116, 45, 84, 121, 112, 101, 58, 32, 97, 10>>,
        pad |-> 0],                                     \* "Content-Type: a\n"
       [text |-> <<10>>, pad |-> 0]>>,
     <<[text |-> <<83, 116, 97, 116, 117, 115, 58, 32, 52, 48, 51, 32, 70, 111, 114, 98, 105,
                   100, 100, 101, 110, 10>>, pad |-> 0], \* "Status: 403 Forbidden\n"
       [text |-> <<10>>, pad |-> 0]>>,
     status_line_then_eof,
     <<[text |-> <<88, 45, 80, 97, 100, 58, 32, 10>>,   \* "X-Pad: ...\n"
        pad |-> MAX_CGI_HEADER_SIZE]>>,
     <<[text |-> <<88, 58, 32, 255, 10>>, pad |-> 0]>>, \* "X: \xff\n"
     \* "X-Frame-Options: SAMEORIGIN\r\n"
     <<[text |-> <<88, 45, 70, 114, 97, 109, 101, 45, 79, 112, 116, 105, 111, 110, 115, 58, 32, 83,
                   65, 77, 69, 79, 82, 73, 71, 73, 78, 13, 10>>,
        pad |-> 0],
       [text |-> <<13, 10>>, pad |-> 0]>>}

\* ------------------------------------------------------------------------
\* run_cgi's stdin-feeder task
\* ------------------------------------------------------------------------

\* Default maximum allowed body size for git operations (100 MB)
DEFAULT_GIT_MAX_BODY_SIZE == 100 * 1024 * 1024

\* git_config.map(|g| g.max_body_size).unwrap_or(DEFAULT_GIT_MAX_BODY_SIZE)
max_body_size_of(cfg) ==
    IF IsSome(cfg.git) THEN Unwrap(cfg.git).max_body_size ELSE DEFAULT_GIT_MAX_BODY_SIZE

\* the error of a body above the limit
body_too_large(total_bytes, max_body_size) ==
    Error_Git(
        \* "Request body too large ("
        <<82, 101, 113, 117, 101, 115, 116, 32, 98, 111, 100, 121, 32, 116, 111, 111, 32, 108,
          97, 114, 103, 101, 32, 40>>
        \o to_string(total_bytes)
        \o
        \* " bytes exceeds max "
        <<32, 98, 121, 116, 101, 115, 32, 101, 120, 99, 101, 101, 100, 115, 32, 109, 97, 120,
          32>>
        \o to_string(max_body_size)
        \o
        \* " bytes)"
        <<32, 98, 121, 116, 101, 115, 41>>
    )

\* the outcomes of stdin.write_all(&chunk) for a chunk of chunk_len bytes: all of
\* it written, or a failure after n < chunk_len bytes. The pipe breaks only once
\* the child has closed its end.
write_all_outcomes(chunk_len, child_state) ==
    {[outcome |-> "ok", n |-> chunk_len]}
    \cup {[outcome |-> "error", n |-> k] : k \in 0..(chunk_len - 1)}
    \cup (IF child_state \in {"exited", "killed"}
          THEN {[outcome |-> "broken_pipe", n |-> k] : k \in 0..(chunk_len - 1)}
          ELSE {})

stdin_write_failed ==
    Error_Git(
        \* "Failed to write to git-http-backend stdin: Connection reset by peer"
        <<70, 97, 105, 108, 101, 100, 32, 116, 111, 32, 119, 114, 105, 116, 101, 32, 116, 111,
          32, 103, 105, 116, 45, 104, 116, 116, 112, 45, 98, 97, 99, 107, 101, 110, 100, 32, 115,
          116, 100, 105, 110, 58, 32, 67, 111, 110, 110, 101, 99, 116, 105, 111, 110, 32, 114,
          101, 115, 101, 116, 32, 98, 121, 32, 112, 101, 101, 114>>
    )

body_stream_error ==
    Error_Git(
        \* "Body stream error: error reading a body from connection"
        <<66, 111, 100, 121, 32, 115, 116, 114, 101, 97, 109, 32, 101, 114, 114, 111, 114, 58,
          32, 101, 114, 114, 111, 114, 32, 114, 101, 97, 100, 105, 110, 103, 32, 97, 32, 98, 111,
          100, 121, 32, 102, 114, 111, 109, 32, 99, 111, 110, 110, 101, 99, 116, 105, 111, 110>>
    )

\* a mutant of stdin_task_chunk: the chunk is written before the limit is checked
stdin_task_chunk_writes_first(task, chunk_len, max_body_size, write) ==
    LET total == task.total_bytes + chunk_len
    IN  IF write.outcome = "ok" /\ total > max_body_size
        THEN [task EXCEPT !.pc = "finished", !.total_bytes = total, !.chunks = @ + 1,
                          !.result = "err", !.written = @ + write.n,
                          !.err = body_too_large(total, max_body_size)]
        ELSE IF write.outcome = "ok"
        THEN [task EXCEPT !.total_bytes = total, !.chunks = @ + 1, !.written = @ + write.n]
        ELSE IF write.outcome = "broken_pipe"
        THEN [task EXCEPT !.pc = "finished", !.total_bytes = total, !.chunks = @ + 1,
                          !.written = @ + write.n, !.result = "ok"]
        ELSE [task EXCEPT !.pc = "finished", !.total_bytes = total, !.chunks = @ + 1,
                          !.written = @ + write.n, !.result = "err",
                          !.err = stdin_write_failed]

\* one turn of the stdin task's loop on a chunk of chunk_len bytes: count it,
\* fail when the count exceeds the limit, else write it (a broken pipe ends the
\* loop without an error)
stdin_task_chunk(task, chunk_len, max_body_size, write) ==
    LET total == task.total_bytes + chunk_len
    IN  IF total > max_body_size
        THEN [task EXCEPT !.pc = "finished", !.total_bytes = total, !.chunks = @ + 1,
                          !.result = "err",
                          !.err = body_too_large(total, max_body_size)]
        ELSE IF write.outcome = "ok"
        THEN [task EXCEPT !.total_bytes = total, !.chunks = @ + 1, !.written = @ + write.n]
        ELSE IF write.outcome = "broken_pipe"
        THEN [task EXCEPT !.pc = "finished", !.total_bytes = total, !.chunks = @ + 1,
                          !.written = @ + write.n, !.result = "ok"]
        ELSE [task EXCEPT !.pc = "finished", !.total_bytes = total, !.chunks = @ + 1,
                          !.written = @ + write.n, !.result = "err",
                          !.err = stdin_write_failed]

no_stdin_task ==
    [pc |-> "none", total_bytes |-> 0, written |-> 0, chunks |-> 0, result |-> "none",
     err |-> <<>>]

\* ------------------------------------------------------------------------
\* The Git gateway: one request from git_handler to the end of its post-push task
\* ------------------------------------------------------------------------

no_request ==
    [path |-> <<>>, authorization |-> None,
     cred |-> [kind |-> "absent", user |-> <<>>, pass |-> <<>>], repo_ok |-> FALSE,
     line |-> [method |-> <<>>, query_string |-> None, content_type |-> None,
               content_length |-> None]]

no_child ==
    [state |-> "none", success |-> FALSE, stdout |-> <<>>, owner |-> "none", env |-> <<>>]

no_completion == [exists |-> FALSE, stdin_task |-> FALSE]

no_post_push ==
    [pc |-> "none", exit_success |-> FALSE, failed |-> FALSE, err |-> <<>>,
     refresh_failed |-> FALSE]

\* the variables of the index cell, where a specification does not use them
IndexUnused ==
    /\ content_tree = 0
    /\ cache = [posts |-> 0, series |-> 0, etag |-> 0]
    /\ cache_lock = [writer |-> 0, readers |-> {}]
    /\ refresh_task = <<>>
    /\ reader = <<>>

\* the variables of the webhook tasks, where a specification does not use them
WebhookUnused ==
    /\ fire = "idle"
    /\ webhook_tasks = <<>>

\* the variables of the content directory, where a specification does not use them
ContentUnused ==
    /\ repo = <<>>
    /\ content_cache = <<>>
    /\ call = <<>>

\* the variables of the address check, where a specification does not use them
SecurityUnused ==
    /\ checked_ip = <<>>
    /\ ip_safe = <<>>

\* the variables of the API handlers, where a specification does not use them
ApiUnused ==
    /\ index = [posts |-> <<>>, series |-> <<>>]
    /\ now = 0
    /\ api_request = <<>>
    /\ auth_status = Public
    /\ api_response = None
    /\ api_pc = "idle"

InitGit ==
    /\ \E setup \in GitAuthSetups, g \in GitSections :
          /\ config = [auth |-> setup.auth, git |-> g]
          /\ env = setup.env
    /\ request = no_request
    /\ response = None
    /\ wire = None
    /\ handler = "idle"
    /\ child = no_child
    /\ stdin_task = no_stdin_task
    /\ stderr_task = "none"
    /\ completion = no_completion
    /\ post_push = no_post_push
    /\ auth_checks = 0
    /\ reloads = 0
    /\ webhooks_fired = 0
    /\ IndexUnused
    /\ ApiUnused
    /\ WebhookUnused
    /\ ContentUnused
    /\ SecurityUnused

spawn_failed ==
    Error_Git(
        \* "Failed to spawn git-http-backend: No such file or directory (os error 2)"
        <<70, 97, 105, 108, 101, 100, 32, 116, 111, 32, 115, 112, 97, 119, 110, 32, 103, 105,
          116, 45, 104, 116, 116, 112, 45, 98, 97, 99, 107, 101, 110, 100, 58, 32, 78, 111, 32,
          115, 117, 99, 104, 32, 102, 105, 108, 101, 32, 111, 114, 32, 100, 105, 114, 101, 99,
          116, 111, 114, 121, 32, 40, 111, 115, 32, 101, 114, 114, 111, 114, 32, 50, 41>>
    )

\* ------------------------------------------------------------------------
\* The layers of build_router and serve, and the environment of the CGI child
\* ------------------------------------------------------------------------

x_content_type_options ==
    \* "x-content-type-options"
    <<120, 45, 99, 111, 110, 116, 101, 110, 116, 45, 116, 121, 112, 101, 45, 111, 112, 116, 105,
      111, 110, 115>>

nosniff ==
    \* "nosniff"
    <<110, 111, 115, 110, 105, 102, 102>>

x_frame_options ==
    \* "x-frame-options"
    <<120, 45, 102, 114, 97, 109, 101, 45, 111, 112, 116, 105, 111, 110, 115>>

DENY ==
    \* "DENY"
    <<68, 69, 78, 89>>

content_security_policy ==
    \* "content-security-policy"
    <<99, 111, 110, 116, 101, 110, 116, 45, 115, 101, 99, 117, 114, 105, 116, 121, 45, 112, 111,
      108, 105, 99, 121>>

default_src_none ==
    \* "default-src 'none'"
    <<100, 101, 102, 97, 117, 108, 116, 45, 115, 114, 99, 32, 39, 110, 111, 110, 101, 39>>

\* the response layers of build_router, innermost first: the three
\* SetResponseHeaderLayer::overriding layers replace what the handler set
\* (auth_middleware, CorsLayer and TraceLayer leave these headers alone)
router_layers(resp) ==
    [resp EXCEPT
        !.headers = (content_security_policy :> default_src_none)
                    @@ (x_frame_options :> DENY)
                    @@ (x_content_type_options :> nosniff)
                    @@ @]

\* the rejection of tower_governor's GovernorLayer, which serve puts around the
\* router built by build_router: 429 with the time to wait
too_many_requests_response ==
    [status |-> 429,
     headers |->
        \* "retry-after": "1"
        (<<114, 101, 116, 114, 121, 45, 97, 102, 116, 101, 114>> :> <<49>>),
     body |-> [kind |-> "text",
               text |->
                  \* "Too Many Requests! Wait for 1s"
                  <<84, 111, 111, 32, 77, 97, 110, 121, 32, 82, 101, 113, 117, 101, 115, 116,
                    115, 33, 32, 87, 97, 105, 116, 32, 102, 111, 114, 32, 49, 115>>
              ]]

\* state.config.content.repo_path
repo_path ==
    \* "/data/repo"
    <<47, 100, 97, 116, 97, 47, 114, 101, 112, 111>>

GIT_PROJECT_ROOT ==
    \* "GIT_PROJECT_ROOT"
    <<71, 73, 84, 95, 80, 82, 79, 74, 69, 67, 84, 95, 82, 79, 79, 84>>

GIT_HTTP_EXPORT_ALL ==
    \* "GIT_HTTP_EXPORT_ALL"
    <<71, 73, 84, 95, 72, 84, 84, 80, 95, 69, 88, 80, 79, 82, 84, 95, 65, 76, 76>>

PATH_INFO ==
    \* "PATH_INFO"
    <<80, 65, 84, 72, 95, 73, 78, 70, 79>>

REQUEST_METHOD ==
    \* "REQUEST_METHOD"
    <<82, 69, 81, 85, 69, 83, 84, 95, 77, 69, 84, 72, 79, 68>>

QUERY_STRING ==
    \* "QUERY_STRING"
    <<81, 85, 69, 82, 89, 95, 83, 84, 82, 73, 78, 71>>

CONTENT_TYPE ==
    \* "CONTENT_TYPE"
    <<67, 79, 78, 84, 69, 78, 84, 95, 84, 89, 80, 69>>

CONTENT_LENGTH ==
    \* "CONTENT_LENGTH"
    <<67, 79, 78, 84, 69, 78, 84, 95, 76, 69, 78, 71, 84, 72>>

\* a map with the entry of key k when the option holds a value
env_insert(k, option) == IF IsSome(option) THEN (k :> Unwrap(option)) ELSE <<>>

\* run_cgi's env map: the CGI variables of the request
cgi_env(root, path, line) ==
    env_insert(CONTENT_LENGTH,
               IF IsSome(line.content_length)
               THEN Some(to_string(Unwrap(line.content_length))) ELSE None)
    @@ env_insert(CONTENT_TYPE, line.content_type)
    @@ env_insert(QUERY_STRING, line.query_string)
    @@ (REQUEST_METHOD :> line.method)
    @@ (PATH_INFO :> <<47>> \o path)
    @@ (GIT_HTTP_EXPORT_ALL :> <<49>>)
    @@ (GIT_PROJECT_ROOT :> root)

\* Command::new(..).envs(&env): the child inherits the environment of the
\* server process, with the given variables added or replaced
command_envs(process_env, vars_given) == vars_given @@ process_env

\* method, query string, Content-Type and Content-Length of a request, as a Git
\* client sends them: the ref advertisement and the pack upload
GitRequestLines ==
    {[method |-> <<71, 69, 84>>,                                      \* "GET"
      query_string |->
         Some(
            \* "service=git-receive-pack"
            <<115, 101, 114, 118, 105, 99, 101, 61, 103, 105, 116, 45, 114, 101, 99, 101, 105,
              118, 101, 45, 112, 97, 99, 107>>
         ),
      content_type |-> None, content_length |-> None],
     [method |-> <<80, 79, 83, 84>>,                                  \* "POST"
      query_string |-> None,
      content_type |->
         Some(
            \* "application/x-git-receive-pack-request"
            <<97, 112, 112, 108, 105, 99, 97, 116, 105, 111, 110, 47, 120, 45, 103, 105, 116,
              45, 114, 101, 99, 101, 105, 118, 101, 45, 112, 97, 99, 107, 45, 114, 101, 113, 117,
              101, 115, 116>>
         ),
      content_length |-> Some(2)]}

\* serve: the governor layer turns a request away when the bucket of its peer
\* address is empty; the router never sees it
RateLimited ==
    /\ handler = "idle"
    /\ wire' = Some(too_many_requests_response)
    /\ UNCHANGED <<indexVars, apiVars, config, env, contentVars, securityVars, webhookVars,
                   request, response, handler, child, stdin_task, stderr_task, completion,
                   post_push, auth_checks, reloads, webhooks_fired>>

\* git_handler from its entry to the await of run_cgi's header read: the checks
\* of git_handler_preflight, then the CGI environment, Command::spawn and the
\* two I/O tasks. A response returned here passes the layers of the router.
GitRequest(path, a, line, repo_ok, spawn_ok) ==
    /\ handler = "idle"
    /\ request' = [path |-> path, authorization |-> a.authorization, cred |-> a.cred,
                   repo_ok |-> repo_ok, line |-> line]
    /\ LET pre == git_handler_preflight(path, a.authorization, config, env, repo_ok)
       IN  /\ auth_checks' = auth_checks + (IF pre.auth_checked THEN 1 ELSE 0)
           /\ IF pre.outcome = "run_cgi" /\ spawn_ok
              THEN /\ handler' = "read_cgi_headers"
                   /\ response' = None
                   /\ wire' = None
                   /\ child' = [no_child EXCEPT
                                   !.state = "running", !.owner = "run_cgi",
                                   !.env = command_envs(env, cgi_env(repo_path, path, line))]
                   /\ stdin_task' = [no_stdin_task EXCEPT !.pc = "running"]
                   /\ stderr_task' = "running"
              ELSE /\ handler' = "done"
                   /\ response' =
                         Some(CASE pre.outcome = "bad_request" -> bad_request_response
                                [] pre.outcome = "unauthorized" -> unauthorized_response
                                [] pre.outcome = "not_found" -> repo_not_found_response
                                [] OTHER -> git_error_response(spawn_failed))
                   /\ wire' = Some(router_layers(Unwrap(response')))
                   /\ UNCHANGED <<child, stdin_task, stderr_task>>
    /\ UNCHANGED <<indexVars, apiVars, config, env, contentVars, securityVars, webhookVars,
                   completion, post_push, reloads, webhooks_fired>>

\* the stdin task takes the next chunk of the request body
StdinChunk(chunk_len, write) ==
    /\ stdin_task.pc = "running"
    /\ stdin_task.chunks < MaxChunks
    /\ write \in write_all_outcomes(chunk_len, child.state)
    /\ stdin_task' = stdin_task_chunk(stdin_task, chunk_len, max_body_size_of(config), write)
    /\ UNCHANGED <<indexVars, apiVars, config, env, contentVars, securityVars, webhookVars, wire,
                   request, response, handler, child, stderr_task, completion,
                   post_push, auth_checks, reloads, webhooks_fired>>

\* the body stream ends: stdin.shutdown() and Ok(())
StdinEof ==
    /\ stdin_task.pc = "running"
    /\ stdin_task' = [stdin_task EXCEPT !.pc = "finished", !.result = "ok"]
    /\ UNCHANGED <<indexVars, apiVars, config, env, contentVars, securityVars, webhookVars, wire,
                   request, response, handler, child, stderr_task, completion,
                   post_push, auth_checks, reloads, webhooks_fired>>

\* the body stream yields an error
StdinStreamError ==
    /\ stdin_task.pc = "running"
    /\ stdin_task' = [stdin_task EXCEPT !.pc = "finished", !.result = "err",
                                        !.err = body_stream_error]
    /\ UNCHANGED <<indexVars, apiVars, config, env, contentVars, securityVars, webhookVars, wire,
                   request, response, handler, child, stderr_task, completion,
                   post_push, auth_checks, reloads, webhooks_fired>>

\* git-http-backend writes its header block to stdout
ChildEmit(block) ==
    /\ child.state = "running"
    /\ child.stdout = <<>>
    /\ child' = [child EXCEPT !.stdout = block]
    /\ UNCHANGED <<indexVars, apiVars, config, env, contentVars, securityVars, webhookVars, wire,
                   request, response, handler, stdin_task, stderr_task,
                   completion, post_push, auth_checks, reloads, webhooks_fired>>

\* git-http-backend exits, with status 0 or not
ChildExit(success) ==
    /\ child.state = "running"
    /\ child' = [child EXCEPT !.state = "exited", !.success = success]
    /\ UNCHANGED <<indexVars, apiVars, config, env, contentVars, securityVars, webhookVars, wire,
                   request, response, handler, stdin_task, stderr_task,
                   completion, post_push, auth_checks, reloads, webhooks_fired>>

\* the stderr task returns: stderr reached EOF, or the 64 KB cap, which a child
\* may fill at any time
StderrTaskFinish ==
    /\ stderr_task = "running"
    /\ stderr_task' = "finished"
    /\ UNCHANGED <<indexVars, apiVars, config, env, contentVars, securityVars, webhookVars, wire,
                   request, response, handler, child, stdin_task, completion,
                   post_push, auth_checks, reloads, webhooks_fired>>

\* what read_cgi_headers returns for each header block a child may have written
\* (nothing written included), computed once
cgi_headers_read == [block \in CgiHeaderBlocks \cup {<<>>} |-> read_cgi_headers(block)]

\* whether read_cgi_headers has its answer, for each header block and for
\* stdout open or closed, computed once
cgi_headers_complete ==
    [block \in CgiHeaderBlocks \cup {<<>>} |->
        [closed \in BOOLEAN |-> headers_complete(block, closed)]]

\* run_cgi returns to git_handler once read_cgi_headers has its answer, and
\* git_handler builds the response: a failed header read or a stdin task that
\* has already failed is the Err arm; otherwise the CGI status and headers are
\* sent and the post-push task is spawned with the GitCgiCompletion
RunCgiReturn ==
    /\ handler = "read_cgi_headers"
    /\ cgi_headers_complete[child.stdout][child.state # "running"]
    /\ handler' = "done"
    /\ LET headers == cgi_headers_read[child.stdout]
       IN  IF ~headers.ok
           THEN /\ response' = Some(git_error_response(headers.err))
                /\ child' = [child EXCEPT !.owner = "dropped"]
                /\ UNCHANGED <<completion, post_push>>
           ELSE IF stdin_task.pc = "finished" /\ stdin_task.result = "err"
           THEN /\ response' = Some(git_error_response(stdin_task.err))
                /\ child' = [child EXCEPT !.owner = "dropped"]
                /\ UNCHANGED <<completion, post_push>>
           ELSE /\ response' = Some(git_cgi_response(headers))
                /\ child' = [child EXCEPT !.owner = "completion"]
                /\ completion' = [exists |-> TRUE, stdin_task |-> stdin_task.pc # "finished"]
                /\ post_push' =
                      [no_post_push EXCEPT
                          !.pc = IF stdin_task.pc # "finished" THEN "join_stdin"
                                 ELSE "wait_child"]
    /\ wire' = Some(router_layers(Unwrap(response')))
    /\ UNCHANGED <<indexVars, apiVars, config, env, contentVars, securityVars, webhookVars,
                   request, stdin_task, stderr_task, auth_checks, reloads,
                   webhooks_fired>>

\* GitCgiCompletion::wait: the stdin task is joined, its error only logged
PostPushJoinStdin ==
    /\ post_push.pc = "join_stdin"
    /\ stdin_task.pc = "finished"
    /\ post_push' = [post_push EXCEPT !.pc = "wait_child"]
    /\ completion' = [completion EXCEPT !.stdin_task = FALSE]
    /\ UNCHANGED <<indexVars, apiVars, config, env, contentVars, securityVars, webhookVars, wire,
                   request, response, handler, child, stdin_task, stderr_task,
                   auth_checks, reloads, webhooks_fired>>

\* the error of a failed child.wait()
wait_failed_error ==
    Error_Git(
        \* "Failed to wait on git-http-backend: No child processes (os error 10)"
        <<70, 97, 105, 108, 101, 100, 32, 116, 111, 32, 119, 97, 105, 116, 32, 111, 110, 32,
          103, 105, 116, 45, 104, 116, 116, 112, 45, 98, 97, 99, 107, 101, 110, 100, 58, 32,
          78, 111, 32, 99, 104, 105, 108, 100, 32, 112, 114, 111, 99, 101, 115, 115, 101, 115,
          32, 40, 111, 115, 32, 101, 114, 114, 111, 114, 32, 49, 48, 41>>)

\* the error of a wait that outlasts cgi_timeout
Git_operation_timed_out ==
    Error_Git(
        \* "Git operation timed out"
        <<71, 105, 116, 32, 111, 112, 101, 114, 97, 116, 105, 111, 110, 32, 116, 105, 109,
          101, 100, 32, 111, 117, 116>>)

\* a mutant of PostPushWaitChild: the time is up and the child is not killed
PostPushWaitChild_without_kill(outcome) ==
    /\ post_push.pc = "wait_child"
    /\ \/ /\ outcome = "exited"
          /\ child.state = "exited"
          /\ post_push' = [post_push EXCEPT !.pc = "join_stderr",
                                            !.exit_success = child.success]
          /\ child' = [child EXCEPT !.owner = "reaped"]
       \/ /\ outcome = "wait_failed"
          /\ post_push' = [post_push EXCEPT !.pc = "done", !.failed = TRUE,
                                            !.err = wait_failed_error]
          /\ child' = [child EXCEPT !.owner = "dropped"]
       \/ /\ outcome = "timed_out"
          /\ child.state = "running"
          /\ post_push' = [post_push EXCEPT !.pc = "done", !.failed = TRUE,
                                            !.err = Git_operation_timed_out]
          /\ child' = [child EXCEPT !.owner = "dropped"]
    /\ UNCHANGED <<indexVars, apiVars, config, env, contentVars, securityVars, webhookVars, wire,
                   request, response, handler, stdin_task, stderr_task,
                   completion, auth_checks, reloads, webhooks_fired>>

\* GitCgiCompletion::wait: timeout(cgi_timeout, child.wait()) yields the exit
\* status, or the wait fails, or the time is up and the child is killed
PostPushWaitChild(outcome) ==
    /\ post_push.pc = "wait_child"
    /\ \/ /\ outcome = "exited"
          /\ child.state = "exited"
          /\ post_push' = [post_push EXCEPT !.pc = "join_stderr",
                                            !.exit_success = child.success]
          /\ child' = [child EXCEPT !.owner = "reaped"]
       \/ /\ outcome = "wait_failed"
          /\ post_push' = [post_push EXCEPT !.pc = "done", !.failed = TRUE,
                                            !.err = wait_failed_error]
          /\ child' = [child EXCEPT !.owner = "dropped"]
       \/ /\ outcome = "timed_out"
          /\ child.state = "running"
          /\ post_push' = [post_push EXCEPT !.pc = "done", !.failed = TRUE,
                                            !.err = Git_operation_timed_out]
          /\ child' = [child EXCEPT !.state = "killed", !.owner = "reaped"]
    /\ UNCHANGED <<indexVars, apiVars, config, env, contentVars, securityVars, webhookVars, wire,
                   request, response, handler, stdin_task, stderr_task,
                   completion, auth_checks, reloads, webhooks_fired>>

\* the condition under which the post-push task reloads and notifies
post_push_triggers(path, exit_success) == is_write_operation(path) /\ exit_success

\* a mutant of PostPushJoinStderr: the task goes straight to fire_webhooks
PostPushJoinStderr_skips_refresh ==
    /\ post_push.pc = "join_stderr"
    /\ stderr_task = "finished"
    /\ post_push' = [post_push EXCEPT
                        !.pc = IF post_push_triggers(request.path, post_push.exit_success)
                               THEN "fire_webhooks" ELSE "done"]
    /\ UNCHANGED <<indexVars, apiVars, config, env, contentVars, securityVars, webhookVars, wire,
                   request, response, handler, child, stdin_task, stderr_task,
                   completion, auth_checks, reloads, webhooks_fired>>

\* GitCgiCompletion::wait joins the stderr task and returns Ok(status); the
\* post-push task then decides whether to reload
PostPushJoinStderr ==
    /\ post_push.pc = "join_stderr"
    /\ stderr_task = "finished"
    /\ post_push' = [post_push EXCEPT
                        !.pc = IF post_push_triggers(request.path, post_push.exit_success)
                               THEN "refresh" ELSE "done"]
    /\ UNCHANGED <<indexVars, apiVars, config, env, contentVars, securityVars, webhookVars, wire,
                   request, response, handler, child, stdin_task, stderr_task,
                   completion, auth_checks, reloads, webhooks_fired>>

\* a mutant of PostPushRefresh: a failed refresh ends the task
PostPushRefresh_stops_on_error(ok) ==
    /\ post_push.pc = "refresh"
    /\ reloads' = reloads + 1
    /\ post_push' = [post_push EXCEPT !.pc = IF ok THEN "fire_webhooks" ELSE "done",
                                      !.refresh_failed = ~ok]
    /\ UNCHANGED <<indexVars, apiVars, config, env, contentVars, securityVars, webhookVars, wire,
                   request, response, handler, child, stdin_task, stderr_task,
                   completion, auth_checks, webhooks_fired>>

\* state.riley_cms.refresh().await, its error only logged
PostPushRefresh(ok) ==
    /\ post_push.pc = "refresh"
    /\ reloads' = reloads + 1
    /\ post_push' = [post_push EXCEPT !.pc = "fire_webhooks", !.refresh_failed = ~ok]
    /\ UNCHANGED <<indexVars, apiVars, config, env, contentVars, securityVars, webhookVars, wire,
                   request, response, handler, child, stdin_task, stderr_task,
                   completion, auth_checks, webhooks_fired>>

\* state.riley_cms.fire_webhooks().await
PostPushFireWebhooks ==
    /\ post_push.pc = "fire_webhooks"
    /\ webhooks_fired' = webhooks_fired + 1
    /\ post_push' = [post_push EXCEPT !.pc = "done"]
    /\ UNCHANGED <<indexVars, apiVars, config, env, contentVars, securityVars, webhookVars, wire,
                   request, response, handler, child, stdin_task, stderr_task,
                   completion, auth_checks, reloads>>

\* a Child handle dropped without wait: the process goes on, and once it has
\* exited the runtime's orphan queue collects it (tokio::process, best effort)
OrphanReap ==
    /\ child.owner = "dropped"
    /\ child.state = "exited"
    /\ child' = [child EXCEPT !.owner = "reaped"]
    /\ UNCHANGED <<indexVars, apiVars, config, env, contentVars, securityVars, webhookVars, wire,
                   request, response, handler, stdin_task, stderr_task,
                   completion, post_push, auth_checks, reloads, webhooks_fired>>

NextGit ==
    \/ /\ handler = "idle"
       /\ \E path \in GitPaths, a \in GitAuthorizations, line \in GitRequestLines,
             repo_ok \in BOOLEAN, spawn_ok \in BOOLEAN :
             GitRequest(path, a, line, repo_ok, spawn_ok)
    \/ RateLimited
    \/ /\ stdin_task.pc = "running"
       /\ \E chunk_len \in 1..MaxChunkLen :
             \E write \in write_all_outcomes(chunk_len, child.state) :
                StdinChunk(chunk_len, write)
    \/ StdinEof
    \/ StdinStreamError
    \/ /\ child.state = "running"
       /\ \E block \in CgiHeaderBlocks : ChildEmit(block)
    \/ \E success \in BOOLEAN : ChildExit(success)
    \/ StderrTaskFinish
    \/ RunCgiReturn
    \/ \E outcome \in {"exited", "wait_failed", "timed_out"} : PostPushWaitChild(outcome)
    \/ PostPushJoinStdin
    \/ PostPushJoinStderr
    \/ \E ok \in BOOLEAN : PostPushRefresh(ok)
    \/ PostPushFireWebhooks
    \/ OrphanReap

SpecGit == InitGit /\ [][NextGit]_vars

\* the steps the server takes by itself once they are possible: tasks of the
\* runtime are scheduled fairly, a pending body stream yields its end or an
\* error, the stderr pipe reaches EOF or its cap, and timeout() fires
GitServerSteps ==
    \/ StdinEof
    \/ StdinStreamError
    \/ StderrTaskFinish
    \/ RunCgiReturn
    \/ \E outcome \in {"exited", "wait_failed", "timed_out"} : PostPushWaitChild(outcome)
    \/ PostPushJoinStdin
    \/ PostPushJoinStderr
    \/ \E ok \in BOOLEAN : PostPushRefresh(ok)
    \/ PostPushFireWebhooks
    \/ OrphanReap

\* SpecGit under fair scheduling: no step of the server stays possible for ever
\* without being taken. The child is not bound to write or to exit.
SpecGitFair == SpecGit /\ WF_vars(GitServerSteps)

\* ------------------------------------------------------------------------
\* Properties of the Git gateway (checked under SpecGit)
\* ------------------------------------------------------------------------

\* the request reached run_cgi: a child was spawned for it
cgi_ran == child.state # "none"

\* the stdin task has counted more body bytes than the limit allows
body_over_limit == stdin_task.total_bytes > max_body_size_of(config)

\* C1: a Git request whose body totals more than max_body_size is answered with
\* HTTP 413, whether the stdin task or the header read finishes first.
C1_OversizedBodyGets413 ==
    (cgi_ran /\ body_over_limit /\ IsSome(response)) => Unwrap(response).status = 413

\* C2: the bytes written to the child's stdin never exceed max_body_size, and once
\* the running counter is above max_body_size nothing more is written.
C2_StdinNeverAboveLimit ==
    /\ [](stdin_task.written <= max_body_size_of(config))
    /\ [][body_over_limit => stdin_task'.written = stdin_task.written]_vars

\* C2 witness: after a chunk that was written, a chunk that would cross the limit
\* was refused
C2_Witness_ChunkRefused ==
    /\ stdin_task.pc = "finished"
    /\ stdin_task.result = "err"
    /\ body_over_limit
    /\ stdin_task.written > 0
    /\ stdin_task.chunks = 2

\* C5: the index is reloaded and webhooks fire only for a request whose path
\* contains git-receive-pack and whose CGI response status was 2xx, whatever the
\* child's exit code.
C5_ReloadOnlyAfter2xxPush ==
    (post_push.pc \in {"refresh", "fire_webhooks"} \/ reloads > 0 \/ webhooks_fired > 0)
        => /\ is_write_operation(request.path)
           /\ IsSome(response)
           /\ Unwrap(response).status \in 200..299

\* the git_token a deployment has configured, resolved: None when there is no
\* [auth] section, no git_token, or an env: reference to an unset variable
configured_git_token ==
    IF IsSome(config.auth) /\ IsSome(Unwrap(config.auth).git_token)
       /\ resolve(Unwrap(Unwrap(config.auth).git_token), env).ok
    THEN Some(resolve(Unwrap(Unwrap(config.auth).git_token), env).val)
    ELSE None

\* the path holds ".." or a character outside [A-Za-z0-9] and - _ . / = ? & +
path_is_unsafe(path) ==
    \/ \E i \in 1..(Len(path) - 1) : path[i] = 46 /\ path[i + 1] = 46
    \/ \E i \in 1..Len(path) :
          path[i] \notin (48..57) \cup (65..90) \cup (97..122)
                         \cup {45, 95, 46, 47, 61, 63, 38, 43}

\* C9: on a valid path, a Basic password other than the resolved git_token, a
\* missing or malformed Authorization header, or no configured git_token gets 401
\* with WWW-Authenticate: Basic realm="Git"; with the password given, the outcome
\* is the same for every username.
C9_GitAuthDenial ==
    (handler # "idle" /\ ~path_is_unsafe(request.path)) =>
        LET token == configured_git_token
            cred == request.cred
            denied == response = Some(unauthorized_response)
        IN  /\ ~IsSome(token) => denied
            /\ cred.kind # "basic" => denied
            /\ (cred.kind = "basic" /\ IsSome(token) /\ cred.pass # Unwrap(token)) => denied
            /\ (cred.kind = "basic" /\ IsSome(token) /\ cred.pass = Unwrap(token))
                   => (denied <=> Unwrap(token) = <<>>)
            /\ denied => /\ Unwrap(response).status = 401
                         /\ Unwrap(response).headers[
                                \* "www-authenticate"
                                <<119, 119, 119, 45, 97, 117, 116, 104, 101, 110, 116, 105, 99,
                                  97, 116, 101>>
                            ] =
                                \* "Basic realm=\"Git\""
                                <<66, 97, 115, 105, 99, 32, 114, 101, 97, 108, 109, 61, 34, 71,
                                  105, 116, 34>>

\* C9 witness: user "git" with password "x" against the token "k" was answered 401
C9_Witness_WrongPassword ==
    /\ handler = "done"
    /\ ~path_is_unsafe(request.path)
    /\ configured_git_token = Some(<<107>>)
    /\ request.cred = [kind |-> "basic", user |-> <<103, 105, 116>>, pass |-> <<120>>]
    /\ response = Some(unauthorized_response)

\* C10: a request whose path holds ".." or a character outside the allowed set
\* gets 400 whatever its credentials, and neither check_git_basic_auth nor a CGI
\* spawn happens for it.
C10_PathCheckedBeforeAuth ==
    (handler # "idle" /\ path_is_unsafe(request.path)) =>
        /\ handler = "done"
        /\ response = Some(bad_request_response)
        /\ Unwrap(response).status = 400
        /\ auth_checks = 0
        /\ ~cgi_ran

\* C10 witness: an unsafe path sent with the right password was answered 400
C10_Witness_UnsafePathGoodPassword ==
    /\ handler = "done"
    /\ path_is_unsafe(request.path)
    /\ IsSome(configured_git_token)
    /\ Unwrap(configured_git_token) # <<>>
    /\ request.cred.kind = "basic"
    /\ request.cred.pass = Unwrap(configured_git_token)
    /\ Unwrap(response).status = 400

\* ------------------------------------------------------------------------
\* The index cell: RileyCms.cache under refresh and the read operations
\* ------------------------------------------------------------------------

\* pushes in one behaviour
MaxPushes == 2

\* concurrent read operations in one behaviour
MaxReaders == 1

\* the fields of ContentCache, in declaration order
ContentCacheFields == <<"posts", "series", "etag">>

\* ContentCache::load on a work tree that holds the first `tree` pushes: every
\* field of the loaded value derives from that tree
ContentCache_load(tree) == [posts |-> tree, series |-> tree, etag |-> tree]

\* the fields of ContentCache each read operation of RileyCms uses, in order
ReadOps ==
    [list_posts |-> <<"posts">>,
     get_post |-> <<"posts">>,
     list_series |-> <<"series">>,
     get_series |-> <<"series", "posts">>,
     content_etag |-> <<"etag">>]

\* a mutant of read_lock_free: a reader does not wait for the writer
read_lock_free_ignores_writer(lock) == TRUE

\* RwLock::read is granted while no task holds the write guard
read_lock_free(lock) == lock.writer = 0

\* RwLock::write is granted while no task holds any guard
write_lock_free(lock) == lock.writer = 0 /\ lock.readers = {}

\* the pushes whose post-push refresh has returned Ok
reloads_completed == {p \in DOMAIN refresh_task : refresh_task[p].pc = "done" /\ refresh_task[p].ok}

InitIndex ==
    /\ content_tree = 0
    /\ cache = ContentCache_load(0)
    /\ cache_lock = [writer |-> 0, readers |-> {}]
    /\ refresh_task = [p \in 1..MaxPushes |-> [pc |-> "none", new_cache |-> None, field |-> 1,
                                               ok |-> FALSE]]
    /\ reader = [r \in 1..MaxReaders |->
                    [pc |-> "idle", op |-> "none", began_on |-> ContentCache_load(0),
                     after |-> {}, seen |-> <<>>, body |-> <<>>]]
    /\ config = [auth |-> None, git |-> None]
    /\ env = <<>>
    /\ request = no_request
    /\ response = None
    /\ wire = None
    /\ handler = "idle"
    /\ child = no_child
    /\ stdin_task = no_stdin_task
    /\ stderr_task = "none"
    /\ completion = no_completion
    /\ post_push = no_post_push
    /\ auth_checks = 0
    /\ reloads = 0
    /\ webhooks_fired = 0
    /\ ApiUnused
    /\ WebhookUnused
    /\ ContentUnused
    /\ SecurityUnused

\* a push is received by the repository (pushes serialize in git) and its child
\* exits cleanly: the post-push task calls refresh
Push(p) ==
    /\ p = content_tree + 1
    /\ p <= MaxPushes
    /\ content_tree' = p
    /\ refresh_task' = [refresh_task EXCEPT ![p].pc = "load"]
    /\ UNCHANGED <<cache, cache_lock, reader, config, env, contentVars, securityVars, webhookVars, gitVars, apiVars>>

\* a mutant of RefreshLoad: a failed load leaves an empty index in the cell
RefreshLoad_resets_on_error(p, ok) ==
    /\ refresh_task[p].pc = "load"
    /\ refresh_task' =
          [refresh_task EXCEPT
              ![p] = IF ok
                     THEN [@ EXCEPT !.pc = "write_lock",
                                    !.new_cache = Some(ContentCache_load(content_tree))]
                     ELSE [@ EXCEPT !.pc = "done", !.ok = FALSE]]
    /\ cache' = IF ok THEN cache ELSE ContentCache_load(0)
    /\ UNCHANGED <<content_tree, cache_lock, reader, config, env, contentVars, securityVars, webhookVars, gitVars,
                   apiVars>>

\* refresh: spawn_blocking(ContentCache::load) reads the work tree, before any
\* lock is taken; a failed load returns the error and leaves the cell alone
RefreshLoad(p, ok) ==
    /\ refresh_task[p].pc = "load"
    /\ refresh_task' =
          [refresh_task EXCEPT
              ![p] = IF ok
                     THEN [@ EXCEPT !.pc = "write_lock",
                                    !.new_cache = Some(ContentCache_load(content_tree))]
                     ELSE [@ EXCEPT !.pc = "done", !.ok = FALSE]]
    /\ UNCHANGED <<content_tree, cache, cache_lock, reader, config, env, contentVars, securityVars, webhookVars, gitVars,
                   apiVars>>

\* refresh: self.cache.write().await
RefreshWriteLock(p) ==
    /\ refresh_task[p].pc = "write_lock"
    /\ write_lock_free(cache_lock)
    /\ cache_lock' = [cache_lock EXCEPT !.writer = p]
    /\ refresh_task' = [refresh_task EXCEPT ![p].pc = "assign"]
    /\ UNCHANGED <<content_tree, cache, reader, config, env, contentVars, securityVars, webhookVars, gitVars, apiVars>>

\* refresh: *cache = new_cache, a move of the struct, field after field
RefreshAssign(p) ==
    /\ refresh_task[p].pc = "assign"
    /\ LET f == ContentCacheFields[refresh_task[p].field]
       IN  cache' = [cache EXCEPT ![f] = Unwrap(refresh_task[p].new_cache)[f]]
    /\ refresh_task' =
          [refresh_task EXCEPT
              ![p].field = @ + 1,
              ![p].pc = IF refresh_task[p].field = Len(ContentCacheFields)
                        THEN "unlock" ELSE "assign"]
    /\ UNCHANGED <<content_tree, cache_lock, reader, config, env, contentVars, securityVars, webhookVars, gitVars, apiVars>>

\* refresh: the write guard is dropped and Ok(()) returned
RefreshUnlock(p) ==
    /\ refresh_task[p].pc = "unlock"
    /\ cache_lock' = [cache_lock EXCEPT !.writer = 0]
    /\ refresh_task' = [refresh_task EXCEPT ![p].pc = "done", ![p].ok = TRUE]
    /\ UNCHANGED <<content_tree, cache, reader, config, env, contentVars, securityVars, webhookVars, gitVars, apiVars>>

\* a read operation begins: self.cache.read().await
ReadLock(r, op) ==
    /\ reader[r].pc = "idle"
    /\ read_lock_free(cache_lock)
    /\ cache_lock' = [cache_lock EXCEPT !.readers = @ \cup {r}]
    /\ reader' = [reader EXCEPT ![r] = [pc |-> "reading", op |-> op, began_on |-> cache,
                                        after |-> reloads_completed, seen |-> <<>>,
                                        body |-> <<>>]]
    /\ UNCHANGED <<content_tree, cache, refresh_task, config, env, contentVars, securityVars, webhookVars, gitVars, apiVars>>

\* an API handler that has its content calls state.riley_cms.content_etag():
\* the first read guard is gone, a second self.cache.read().await follows; what
\* the content operation read is kept for the response body
HandlerContentEtag(r) ==
    /\ reader[r].pc = "done"
    /\ reader[r].op # "content_etag"
    /\ read_lock_free(cache_lock)
    /\ cache_lock' = [cache_lock EXCEPT !.readers = @ \cup {r}]
    /\ reader' = [reader EXCEPT ![r] = [pc |-> "reading", op |-> "content_etag",
                                        began_on |-> cache, after |-> reloads_completed,
                                        seen |-> <<>>, body |-> reader[r].seen]]
    /\ UNCHANGED <<content_tree, cache, refresh_task, config, env, contentVars, securityVars, webhookVars, gitVars, apiVars>>

\* the read operation reads the next field of the ContentCache it needs
ReadField(r) ==
    /\ reader[r].pc = "reading"
    /\ Len(reader[r].seen) < Len(ReadOps[reader[r].op])
    /\ LET f == ReadOps[reader[r].op][Len(reader[r].seen) + 1]
       IN  reader' = [reader EXCEPT ![r].seen = Append(@, cache[f])]
    /\ UNCHANGED <<content_tree, cache, cache_lock, refresh_task, config, env, contentVars, securityVars, webhookVars, gitVars,
                   apiVars>>

\* the read operation returns and its read guard is dropped
ReadUnlock(r) ==
    /\ reader[r].pc = "reading"
    /\ Len(reader[r].seen) = Len(ReadOps[reader[r].op])
    /\ cache_lock' = [cache_lock EXCEPT !.readers = @ \ {r}]
    /\ reader' = [reader EXCEPT ![r].pc = "done"]
    /\ UNCHANGED <<content_tree, cache, refresh_task, config, env, contentVars, securityVars, webhookVars, gitVars, apiVars>>

NextIndex ==
    \/ \E p \in 1..MaxPushes : Push(p)
    \/ \E p \in 1..MaxPushes, ok \in BOOLEAN : RefreshLoad(p, ok)
    \/ \E p \in 1..MaxPushes : RefreshWriteLock(p)
    \/ \E p \in 1..MaxPushes : RefreshAssign(p)
    \/ \E p \in 1..MaxPushes : RefreshUnlock(p)
    \/ \E r \in 1..MaxReaders, op \in DOMAIN ReadOps : ReadLock(r, op)
    \/ \E r \in 1..MaxReaders : HandlerContentEtag(r)
    \/ \E r \in 1..MaxReaders : ReadField(r)
    \/ \E r \in 1..MaxReaders : ReadUnlock(r)

SpecIndex == InitIndex /\ [][NextIndex]_vars

\* C3: once the reload of a push has completed, every later read observes an
\* index loaded from a tree that holds that push, also when reloads overlap.
C3_ReadsSeeCompletedReload ==
    \A r \in DOMAIN reader :
        reader[r].pc = "done" =>
            \A p \in reader[r].after :
                \A i \in 1..Len(reader[r].seen) : reader[r].seen[i] >= p

\* C4: every read operation is computed from one index value produced by one
\* complete load, the one the cell held when the read began, whatever a
\* concurrent refresh does.
C4_ReadsAreNotTorn ==
    \A r \in DOMAIN reader :
        reader[r].pc # "idle" =>
            /\ reader[r].began_on = ContentCache_load(reader[r].began_on.posts)
            /\ \A i \in 1..Len(reader[r].seen) :
                  reader[r].seen[i] = reader[r].began_on[ReadOps[reader[r].op][i]]

\* C4 witness: get_series holds the read guard and has read one field, while a
\* refresh that loaded a newer tree waits for the write guard
C4_Witness_ReadDuringRefresh ==
    \E r \in DOMAIN reader, p \in DOMAIN refresh_task :
        /\ reader[r].pc = "reading"
        /\ reader[r].op = "get_series"
        /\ Len(reader[r].seen) = 1
        /\ refresh_task[p].pc = "write_lock"
        /\ Unwrap(refresh_task[p].new_cache).posts > reader[r].began_on.posts

\* ------------------------------------------------------------------------
\* ContentCache: the read methods and the ETag
\* ------------------------------------------------------------------------

\* Ord for str: byte-wise lexicographic order
RECURSIVE str_cmp(_, _)
str_cmp(a, b) ==
    IF a = <<>> /\ b = <<>> THEN "Equal"
    ELSE IF a = <<>> THEN "Less"
    ELSE IF b = <<>> THEN "Greater"
    ELSE IF a[1] < b[1] THEN "Less"
    ELSE IF a[1] > b[1] THEN "Greater"
    ELSE str_cmp(Tail(a), Tail(b))

\* Ord for DateTime<Utc>
date_cmp(a, b) == IF a < b THEN "Less" ELSE IF a > b THEN "Greater" ELSE "Equal"

\* keys.sort(): the keys of a map in ascending order
RECURSIVE sorted_keys(_)
sorted_keys(keys) ==
    IF keys = {} THEN <<>>
    ELSE LET least == CHOOSE k \in keys : \A j \in keys : str_cmp(k, j) # "Greater"
         IN  <<least>> \o sorted_keys(keys \ {least})

RECURSIVE concat_all(_)
concat_all(texts) == IF texts = <<>> THEN <<>> ELSE Head(texts) \o concat_all(Tail(texts))

\* hex::encode(Sha256 of bytes), taken as collision free: the text stands for
\* the bytes that were hashed
hex_sha256(bytes) == <<35>> \o bytes

\* ContentCache::compute_etag: the hash of each post key and content in key
\* order, then of each series key in key order, in double quotes
compute_etag(posts, series) ==
    LET post_keys == sorted_keys(DOMAIN posts)
        series_keys == sorted_keys(DOMAIN series)
        hashed ==
            concat_all([i \in 1..Len(post_keys) |->
                            post_keys[i] \o posts[post_keys[i]].content])
            \o concat_all(series_keys)
    IN  <<34>> \o hex_sha256(hashed) \o <<34>>

\* a mutant of is_visible: scheduled items are shown like live ones
is_visible_shows_scheduled(goes_live_at, opts, t) ==
    IF ~IsSome(goes_live_at) THEN opts.include_drafts ELSE TRUE

\* ContentCache::is_visible: drafts and scheduled items only on request
is_visible(goes_live_at, opts, t) ==
    IF ~IsSome(goes_live_at) THEN opts.include_drafts
    ELSE IF Unwrap(goes_live_at) > t THEN opts.include_scheduled
    ELSE TRUE

\* the comparator list_posts and list_series hand to sort_by
list_order(a, b) ==
    IF IsSome(b.goes_live_at) /\ IsSome(a.goes_live_at)
    THEN date_cmp(Unwrap(b.goes_live_at), Unwrap(a.goes_live_at))
    ELSE IF IsSome(b.goes_live_at) THEN "Less"
    ELSE IF IsSome(a.goes_live_at) THEN "Greater"
    ELSE str_cmp(a.slug, b.slug)

\* slice::sort_by is stable: an insertion sort that never moves an item before
\* one it does not compare Less to
RECURSIVE insert_sorted(_, _)
insert_sorted(sorted, x) ==
    IF sorted = <<>> THEN <<x>>
    ELSE IF list_order(x, sorted[Len(sorted)]) = "Less"
    THEN Append(insert_sorted(SubSeq(sorted, 1, Len(sorted) - 1), x), sorted[Len(sorted)])
    ELSE Append(sorted, x)

RECURSIVE sort_by(_)
sort_by(items) ==
    IF items = <<>> THEN <<>>
    ELSE insert_sorted(sort_by(SubSeq(items, 1, Len(items) - 1)), items[Len(items)])

\* Iterator::filter over a sequence
RECURSIVE filter_visible(_, _, _)
filter_visible(items, opts, t) ==
    IF items = <<>> THEN <<>>
    ELSE IF is_visible(Head(items).goes_live_at, opts, t)
    THEN <<Head(items)>> \o filter_visible(Tail(items), opts, t)
    ELSE filter_visible(Tail(items), opts, t)

\* the orders in which HashMap::values may yield the entries of a map
iteration_orders(map) ==
    {order \in [1..Cardinality(DOMAIN map) -> DOMAIN map] :
        \A i, j \in 1..Cardinality(DOMAIN map) : i # j => order[i] # order[j]}

\* Maximum number of items returned in a single list request.
MAX_PAGE_SIZE == 500

min(a, b) == IF a < b THEN a ELSE b

\* a mutant of skip_take: the page always starts at the first item
skip_take_without_skip(items, offset, limit) ==
    SubSeq(items, 1, min(Len(items), limit))

\* .skip(offset).take(limit)
skip_take(items, offset, limit) ==
    SubSeq(items, offset + 1, min(Len(items), offset + limit))

\* From<&Post> for PostSummary
PostSummary(post) ==
    [slug |-> post.slug, title |-> post.title, goes_live_at |-> post.goes_live_at,
     series_slug |-> post.series_slug]

SeriesSummary(s) ==
    [slug |-> s.slug, title |-> s.title, goes_live_at |-> s.goes_live_at,
     post_count |-> Len(s.post_slugs)]

\* ContentCache::list_posts and list_series up to the mapping of the page's
\* items: filter, sort, count, page. order is the order in which the map's
\* values are iterated.
list_page(map, order, opts, t) ==
    LET limit == min(IF IsSome(opts.limit) THEN Unwrap(opts.limit) ELSE 50, MAX_PAGE_SIZE)
        offset == IF IsSome(opts.offset) THEN Unwrap(opts.offset) ELSE 0
        filtered == sort_by(filter_visible([i \in 1..Len(order) |-> map[order[i]]], opts, t))
    IN  [items |-> skip_take(filtered, offset, limit), total |-> Len(filtered),
         limit |-> limit, offset |-> offset]

\* ContentCache::list_posts
ContentCache_list_posts(cache_value, order, opts, t) ==
    LET page == list_page(cache_value.posts, order, opts, t)
    IN  [page EXCEPT !.items = [i \in 1..Len(page.items) |-> PostSummary(page.items[i])]]

\* ContentCache::list_series
ContentCache_list_series(cache_value, order, opts, t) ==
    LET page == list_page(cache_value.series, order, opts, t)
    IN  [page EXCEPT !.items = [i \in 1..Len(page.items) |-> SeriesSummary(page.items[i])]]

\* ContentCache::get_post
ContentCache_get_post(cache_value, slug) ==
    IF slug \in DOMAIN cache_value.posts THEN Some(cache_value.posts[slug]) ELSE None

\* post_slugs.iter().filter_map(|s| self.posts.get(s)...)
RECURSIVE series_posts(_, _)
series_posts(posts, post_slugs) ==
    IF post_slugs = <<>> THEN <<>>
    ELSE IF Head(post_slugs) \in DOMAIN posts
    THEN <<[slug |-> posts[Head(post_slugs)].slug, title |-> posts[Head(post_slugs)].title,
            goes_live_at |-> posts[Head(post_slugs)].goes_live_at,
            order |-> posts[Head(post_slugs)].order]>>
         \o series_posts(posts, Tail(post_slugs))
    ELSE series_posts(posts, Tail(post_slugs))

\* ContentCache::get_series
ContentCache_get_series(cache_value, slug) ==
    IF slug \in DOMAIN cache_value.series
    THEN LET series_data == cache_value.series[slug]
         IN  Some([slug |-> series_data.slug, title |-> series_data.title,
                   goes_live_at |-> series_data.goes_live_at,
                   posts |-> series_posts(cache_value.posts, series_data.post_slugs)])
    ELSE None

\* ------------------------------------------------------------------------
\* The API handlers
\* ------------------------------------------------------------------------

\* Check if content is visible based on goes_live_at and auth status
is_content_visible(goes_live_at, status, t) ==
    IF status = Admin THEN TRUE
    ELSE IF ~IsSome(goes_live_at) THEN FALSE      \* Draft
    ELSE IF Unwrap(goes_live_at) > t THEN FALSE   \* Scheduled
    ELSE TRUE                                     \* Live

\* not_found_response: 404 with "{kind} not found: {slug}"
not_found_response(slug, kind) ==
    json_error(404,
               kind \o
               \* " not found: "
               <<32, 110, 111, 116, 32, 102, 111, 117, 110, 100, 58, 32>>
               \o slug)

kind_Post == <<80, 111, 115, 116>>  \* "Post"

kind_Series == <<83, 101, 114, 105, 101, 115>>  \* "Series"

\* Json(value).into_response()
json_ok(value) ==
    [status |-> 200,
     headers |-> (content_type :> application_json),
     body |-> [kind |-> "json", text |-> <<>>, data |-> <<value>>]]

cache_control == <<99, 97, 99, 104, 101, 45, 99, 111, 110, 116, 114, 111, 108>>  \* "cache-control"

etag_header == <<101, 116, 97, 103>>  \* "etag"

\* format!("public, max-age={}, stale-while-revalidate={}", max_age, swr) with
\* the [server] settings or their defaults 60 and 300
public_cache_control(cfg) ==
    LET max_age == IF IsSome(cfg.server) THEN Unwrap(cfg.server).cache_max_age ELSE 60
        swr == IF IsSome(cfg.server) THEN Unwrap(cfg.server).cache_stale_while_revalidate
               ELSE 300
    IN
        \* "public, max-age="
        <<112, 117, 98, 108, 105, 99, 44, 32, 109, 97, 120, 45, 97, 103, 101, 61>>
        \o to_string(max_age) \o
        \* ", stale-while-revalidate="
        <<44, 32, 115, 116, 97, 108, 101, 45, 119, 104, 105, 108, 101, 45, 114, 101, 118, 97,
          108, 105, 100, 97, 116, 101, 61>>
        \o to_string(swr)

private_no_store ==
    \* "private, no-store"
    <<112, 114, 105, 118, 97, 116, 101, 44, 32, 110, 111, 45, 115, 116, 111, 114, 101>>

\* with_cache_headers: private for an authenticated response, public with the
\* ETag otherwise
with_cache_headers(resp, cfg, etag, is_authenticated) ==
    IF is_authenticated
    THEN [resp EXCEPT !.headers = (cache_control :> private_no_store) @@ @]
    ELSE [resp EXCEPT !.headers = (cache_control :> public_cache_control(cfg))
                                  @@ (etag_header :> etag) @@ @]

\* is_authenticated_request
is_authenticated_request(query) == query.include_drafts \/ query.include_scheduled

drafts_need_authentication ==
    json_error(401,
               \* "Authentication required for drafts/scheduled content"
               <<65, 117, 116, 104, 101, 110, 116, 105, 99, 97, 116, 105, 111, 110, 32, 114,
                 101, 113, 117, 105, 114, 101, 100, 32, 102, 111, 114, 32, 100, 114, 97, 102, 116,
                 115, 47, 115, 99, 104, 101, 100, 117, 108, 101, 100, 32, 99, 111, 110, 116, 101,
                 110, 116>>
    )

\* a mutant of list_posts: the flags are honoured without the Admin check
list_posts_without_check(status, query, cache_value, order, t, cfg) ==
    LET result == ContentCache_list_posts(cache_value, order, query, t)
    IN  with_cache_headers(
            json_ok([posts |-> result.items, total |-> result.total,
                     limit |-> result.limit, offset |-> result.offset]),
            cfg, compute_etag(cache_value.posts, cache_value.series),
            is_authenticated_request(query))

\* GET /posts
list_posts(status, query, cache_value, order, t, cfg) ==
    IF is_authenticated_request(query) /\ status # Admin
    THEN drafts_need_authentication
    ELSE LET result == ContentCache_list_posts(cache_value, order, query, t)
         IN  with_cache_headers(
                 json_ok([posts |-> result.items, total |-> result.total,
                          limit |-> result.limit, offset |-> result.offset]),
                 cfg, compute_etag(cache_value.posts, cache_value.series),
                 is_authenticated_request(query))

\* GET /series
list_series(status, query, cache_value, order, t, cfg) ==
    IF is_authenticated_request(query) /\ status # Admin
    THEN drafts_need_authentication
    ELSE LET result == ContentCache_list_series(cache_value, order, query, t)
         IN  with_cache_headers(
                 json_ok([series |-> result.items, total |-> result.total,
                          limit |-> result.limit, offset |-> result.offset]),
                 cfg, compute_etag(cache_value.posts, cache_value.series),
                 is_authenticated_request(query))

\* a mutant of get_post: a hidden post is answered 403
get_post_forbids_hidden(status, slug, cache_value, t, cfg) ==
    LET post == ContentCache_get_post(cache_value, slug)
    IN  IF ~IsSome(post) THEN not_found_response(slug, kind_Post)
        ELSE IF ~is_content_visible(Unwrap(post).goes_live_at, status, t)
        THEN json_error(403, kind_Post \o <<32>> \o slug)
        ELSE with_cache_headers(json_ok(Unwrap(post)), cfg,
                                compute_etag(cache_value.posts, cache_value.series),
                                status = Admin)

\* GET /posts/:slug
get_post(status, slug, cache_value, t, cfg) ==
    LET post == ContentCache_get_post(cache_value, slug)
    IN  IF ~IsSome(post) THEN not_found_response(slug, kind_Post)
        ELSE IF ~is_content_visible(Unwrap(post).goes_live_at, status, t)
        THEN not_found_response(slug, kind_Post)
        ELSE with_cache_headers(json_ok(Unwrap(post)), cfg,
                                compute_etag(cache_value.posts, cache_value.series),
                                status = Admin)

\* GET /posts/:slug/raw
get_post_raw(status, slug, cache_value, t, cfg) ==
    LET post == ContentCache_get_post(cache_value, slug)
    IN  IF ~IsSome(post) THEN not_found_response(slug, kind_Post)
        ELSE IF ~is_content_visible(Unwrap(post).goes_live_at, status, t)
        THEN not_found_response(slug, kind_Post)
        ELSE with_cache_headers(
                 [status |-> 200,
                  headers |-> (content_type :> text_plain_utf8),
                  body |-> [kind |-> "text", text |-> Unwrap(post).content]],
                 cfg, compute_etag(cache_value.posts, cache_value.series), status = Admin)

\* GET /series/:slug
get_series(status, slug, cache_value, t, cfg) ==
    LET series == ContentCache_get_series(cache_value, slug)
    IN  IF ~IsSome(series) THEN not_found_response(slug, kind_Series)
        ELSE IF ~is_content_visible(Unwrap(series).goes_live_at, status, t)
        THEN not_found_response(slug, kind_Series)
        ELSE with_cache_headers(json_ok(Unwrap(series)), cfg,
                                compute_etag(cache_value.posts, cache_value.series),
                                status = Admin)

\* /git/{*path} as far as git_handler's own checks: the responses of a request
\* it turns away, and for a request it lets through the response of a child
\* that answers with an empty header block
git_route(path, authorization, cfg, environment, repo_ok) ==
    LET pre == git_handler_preflight(path, authorization, cfg, environment, repo_ok)
    IN  CASE pre.outcome = "bad_request" -> bad_request_response
          [] pre.outcome = "unauthorized" -> unauthorized_response
          [] pre.outcome = "not_found" -> repo_not_found_response
          [] OTHER -> git_cgi_response(read_cgi_headers(<<>>))

\* build_router: the route's handler, given the AuthStatus of the middleware
route(req, status, cache_value, orders, t, cfg, environment) ==
    CASE req.route = "list_posts" ->
            list_posts(status, req.query, cache_value, orders.posts, t, cfg)
      [] req.route = "list_series" ->
            list_series(status, req.query, cache_value, orders.series, t, cfg)
      [] req.route = "get_post" -> get_post(status, req.slug, cache_value, t, cfg)
      [] req.route = "get_post_raw" -> get_post_raw(status, req.slug, cache_value, t, cfg)
      [] req.route = "get_series" -> get_series(status, req.slug, cache_value, t, cfg)
      [] OTHER -> git_route(req.slug, req.authorization, cfg, environment, TRUE)

\* ------------------------------------------------------------------------
\* The API: one request through auth_middleware and its handler
\* ------------------------------------------------------------------------

\* the latest value of the clock
MaxNow == 3

\* the configurations and environments of the API: no [auth] section, no
\* tokens, tokens "s" (API) and "k" (Git), empty tokens, and tokens "env:T" with
\* T unset, T="" and T="s"
ApiSetups ==
    {[auth |-> None, server |-> None, env |-> <<>>],
     [auth |-> Some([git_token |-> None, api_token |-> None]), server |-> None, env |-> <<>>],
     [auth |-> Some([git_token |-> Some(<<107>>), api_token |-> Some(<<115>>)]),
      server |-> None, env |-> <<>>],
     [auth |-> Some([git_token |-> Some(<<107>>), api_token |-> Some(<<115>>)]),
      server |-> Some([cache_max_age |-> 0, cache_stale_while_revalidate |-> 86400]),
      env |-> <<>>],
     [auth |-> Some([git_token |-> Some(<<>>), api_token |-> Some(<<>>)]),
      server |-> None, env |-> <<>>]}
    \cup {[auth |-> Some([git_token |-> Some(<<101, 110, 118, 58, 84>>),
                          api_token |-> Some(<<101, 110, 118, 58, 84>>)]),
           server |-> None, env |-> e] :
            e \in {<<>>, (<<84>> :> <<>>), (<<84>> :> <<115>>)}}

slug_a == <<97>>

slug_b == <<98>>

slug_s == <<115>>

\* a post as ContentCache::load builds it from its directory
a_post(slug, goes_live_at, series_slug) ==
    [slug |-> slug, title |-> <<84>> \o slug, goes_live_at |-> goes_live_at,
     series_slug |-> series_slug, content |-> <<35, 32>> \o slug, order |-> None]

\* the dates a config.toml gives: none (Draft), 1 and 3
GoesLiveAt == {None, Some(1), Some(3)}

\* indexes a load can produce: post "a" and series "s" absent or with any date,
\* post "b" absent, a draft or dated 1, a member of "s" when "s" exists
ApiIndexes ==
    {[posts |->
         [k \in (IF pa.there THEN {slug_a} ELSE {}) \cup (IF pb.there THEN {slug_b} ELSE {})
            |-> IF k = slug_a THEN a_post(slug_a, pa.at, None)
                ELSE a_post(slug_b, pb.at, IF s.there THEN Some(slug_s) ELSE None)],
      series |->
         [k \in (IF s.there THEN {slug_s} ELSE {})
            |-> [slug |-> slug_s, title |-> <<83>>, goes_live_at |-> s.at,
                 post_slugs |-> IF pb.there THEN <<slug_b>> ELSE <<>>]]] :
        pa \in {[there |-> FALSE, at |-> None]} \cup {[there |-> TRUE, at |-> g] : g \in GoesLiveAt},
        pb \in {[there |-> FALSE, at |-> None], [there |-> TRUE, at |-> None],
                [there |-> TRUE, at |-> Some(1)]},
        s \in {[there |-> FALSE, at |-> None]} \cup {[there |-> TRUE, at |-> g] : g \in GoesLiveAt}}

no_query ==
    [include_drafts |-> FALSE, include_scheduled |-> FALSE, limit |-> None, offset |-> None]

\* Authorization headers of API callers: none, Bearer with the token "s", with
\* an empty token, with a wrong one, and a Git client's Basic header
ApiAuthorizations ==
    {None,
     Some(<<66, 101, 97, 114, 101, 114, 32, 115>>),   \* "Bearer s"
     Some(<<66, 101, 97, 114, 101, 114, 32>>),        \* "Bearer "
     Some(<<66, 101, 97, 114, 101, 114, 32, 120>>),   \* "Bearer x"
     Some(basic_header(<<103, 105, 116>>, <<107>>)),  \* git:k
     Some(basic_header(<<103, 105, 116>>, <<>>))}     \* git:

ApiRequests ==
    {[route |-> r, slug |-> <<>>, authorization |-> a, handled_at |-> 0,
      query |-> [include_drafts |-> d, include_scheduled |-> sc, limit |-> l, offset |-> o]] :
        r \in {"list_posts", "list_series"}, a \in ApiAuthorizations, d \in BOOLEAN,
        sc \in BOOLEAN, l \in {None, Some(1)}, o \in {None, Some(1)}}
    \cup {[route |-> r, slug |-> sl, authorization |-> a, handled_at |-> 0, query |-> no_query] :
            r \in {"get_post", "get_post_raw", "get_series"}, a \in ApiAuthorizations,
            sl \in {slug_a, slug_b, slug_s, <<122>>}}
    \cup {[route |-> "git", slug |-> p, authorization |-> a, handled_at |-> 0, query |-> no_query] :
            a \in ApiAuthorizations,
            p \in {<<105, 110, 102, 111, 47, 114, 101, 102, 115>>,   \* "info/refs"
                   <<46, 46, 47, 101, 116, 99>>}}                     \* "../etc"

InitApi ==
    /\ \E setup \in ApiSetups :
          /\ config = [auth |-> setup.auth, git |-> None, server |-> setup.server]
          /\ env = setup.env
    /\ index \in ApiIndexes
    /\ now = 2
    /\ api_request = [route |-> "none", slug |-> <<>>, authorization |-> None,
                      handled_at |-> 0, query |-> no_query]
    /\ auth_status = Public
    /\ api_response = None
    /\ api_pc = "idle"
    /\ request = no_request
    /\ response = None
    /\ wire = None
    /\ handler = "idle"
    /\ child = no_child
    /\ stdin_task = no_stdin_task
    /\ stderr_task = "none"
    /\ completion = no_completion
    /\ post_push = no_post_push
    /\ auth_checks = 0
    /\ reloads = 0
    /\ webhooks_fired = 0
    /\ IndexUnused
    /\ WebhookUnused
    /\ ContentUnused
    /\ SecurityUnused

\* time passes
Tick ==
    /\ now < MaxNow
    /\ now' = now + 1
    /\ UNCHANGED <<index, api_request, auth_status, api_response, api_pc, config, env, contentVars, securityVars, webhookVars,
                   gitVars, indexVars>>

\* auth_middleware tags the request and hands it to the router
ApiReceive(req) ==
    /\ api_pc = "idle"
    /\ api_request' = req
    /\ auth_status' = auth_middleware(req.authorization, config, env)
    /\ api_pc' = "handler"
    /\ UNCHANGED <<index, now, api_response, config, env, contentVars, securityVars, webhookVars, gitVars, indexVars>>

\* the route's handler answers; orders are the orders in which the two maps of
\* the index are iterated
ApiHandle(orders) ==
    /\ api_pc = "handler"
    /\ api_response' = Some(route(api_request, auth_status, index, orders, now, config, env))
    /\ api_request' = [api_request EXCEPT !.handled_at = now]
    /\ api_pc' = "done"
    /\ UNCHANGED <<index, now, auth_status, config, env, contentVars, securityVars, webhookVars, gitVars, indexVars>>

NextApi ==
    \/ Tick
    \/ /\ api_pc = "idle"
       /\ \E req \in ApiRequests : ApiReceive(req)
    \/ /\ api_pc = "handler"
       /\ \E po \in iteration_orders(index.posts), so \in iteration_orders(index.series) :
             ApiHandle([posts |-> po, series |-> so])

SpecApi == InitApi /\ [][NextApi]_vars

\* ------------------------------------------------------------------------
\* Properties of the API (checked under SpecApi)
\* ------------------------------------------------------------------------

\* an item is Draft (no goes_live_at) or Scheduled (goes_live_at still ahead) at t
is_hidden(goes_live_at, t) == ~IsSome(goes_live_at) \/ Unwrap(goes_live_at) > t

\* the index without the entry of a slug in one of its maps
index_without(cache_value, map, slug) ==
    [cache_value EXCEPT ![map] = [k \in (DOMAIN cache_value[map]) \ {slug} |-> cache_value[map][k]]]

\* the response the request of this state gets from another index, at the
\* time it was handled
response_on(cache_value) ==
    route(api_request, auth_status, cache_value, [posts |-> <<>>, series |-> <<>>],
          api_request.handled_at, config, env)

\* C6: to a Public caller, GET posts/{slug}, posts/{slug}/raw and series/{slug}
\* answer for a Draft or Scheduled item exactly (status 404, body, headers) as
\* they answer when the index has no item of that slug.
C6_HiddenLooksAbsent ==
    (api_pc = "done" /\ auth_status = Public) =>
        LET slug == api_request.slug
            at == api_request.handled_at
        IN  /\ (/\ api_request.route \in {"get_post", "get_post_raw"}
                /\ slug \in DOMAIN index.posts
                /\ is_hidden(index.posts[slug].goes_live_at, at))
                   => /\ Unwrap(api_response).status = 404
                      /\ Unwrap(api_response) = response_on(index_without(index, "posts", slug))
            /\ (/\ api_request.route = "get_series"
                /\ slug \in DOMAIN index.series
                /\ is_hidden(index.series[slug].goes_live_at, at))
                   => /\ Unwrap(api_response).status = 404
                      /\ Unwrap(api_response) = response_on(index_without(index, "series", slug))

\* C6 witness: a Public caller asked for a post that was Scheduled when the
\* handler ran and got 404
C6_Witness_ScheduledPost ==
    /\ api_pc = "done"
    /\ auth_status = Public
    /\ api_request.route = "get_post"
    /\ api_request.slug \in DOMAIN index.posts
    /\ IsSome(index.posts[api_request.slug].goes_live_at)
    /\ is_hidden(index.posts[api_request.slug].goes_live_at, api_request.handled_at)
    /\ Unwrap(api_response).status = 404

\* the items of a list response
listed_items(resp) ==
    IF resp.status # 200 THEN <<>>
    ELSE IF api_request.route = "list_posts" THEN resp.body.data[1].posts
    ELSE resp.body.data[1].series

\* C7: list_posts and list_series with include_drafts or include_scheduled answer
\* 401 unless the caller is Admin, and no list response to a Public caller holds
\* a Draft or Scheduled item.
C7_ListsHideDraftsFromPublic ==
    (api_pc = "done" /\ api_request.route \in {"list_posts", "list_series"}) =>
        LET resp == Unwrap(api_response)
            flagged == api_request.query.include_drafts \/ api_request.query.include_scheduled
        IN  /\ flagged => (resp.status = 401 <=> auth_status # Admin)
            /\ ~flagged => resp.status = 200
            /\ auth_status = Public =>
                  \A i \in 1..Len(listed_items(resp)) :
                      ~is_hidden(listed_items(resp)[i].goes_live_at, api_request.handled_at)

\* C7 witness: a Public caller asked for drafts of an index that holds one and
\* got 401
C7_Witness_PublicAsksForDrafts ==
    /\ api_pc = "done"
    /\ api_request.route = "list_posts"
    /\ api_request.query.include_drafts
    /\ auth_status = Public
    /\ \E k \in DOMAIN index.posts : ~IsSome(index.posts[k].goes_live_at)
    /\ Unwrap(api_response).status = 401

\* the value a configured token resolves to, None when it is not configured or
\* does not resolve
resolved_token(name) ==
    IF IsSome(config.auth) /\ IsSome(Unwrap(config.auth)[name])
       /\ resolve(Unwrap(Unwrap(config.auth)[name]), env).ok
    THEN Some(resolve(Unwrap(Unwrap(config.auth)[name]), env).val)
    ELSE None

\* C8: a token that resolves to the empty string authenticates nobody: with an
\* empty api_token no request is tagged Admin, an empty Bearer token included,
\* and with an empty git_token every Git request is denied.
C8_EmptyTokenAuthenticatesNobody ==
    /\ (api_pc # "idle" /\ resolved_token("api_token") = Some(<<>>)) => auth_status # Admin
    /\ (api_pc = "done" /\ api_request.route = "git" /\ resolved_token("git_token") = Some(<<>>))
          => Unwrap(api_response).status \in {400, 401}

\* ------------------------------------------------------------------------
\* Outbound webhooks: security::is_safe_ip, RileyCms::fire_webhooks, send_webhook
\* ------------------------------------------------------------------------

\* std::net::IpAddr: V4 with four octets, V6 with eight 16-bit segments
V4(a, b, c, d) == [v |-> 4, octets |-> <<a, b, c, d>>]

V6(segments) == [v |-> 6, segments |-> segments]

\* Ipv6Addr::to_ipv4_mapped: ::ffff:a.b.c.d
to_ipv4_mapped(ip) ==
    LET s == ip.segments
    IN  IF SubSeq(s, 1, 5) = <<0, 0, 0, 0, 0>> /\ s[6] = 65535
        THEN Some(V4(s[7] \div 256, s[7] % 256, s[8] \div 256, s[8] % 256))
        ELSE None

\* IpAddr::is_loopback: 127.0.0.0/8, ::1
is_loopback(ip) ==
    IF ip.v = 4 THEN ip.octets[1] = 127 ELSE ip.segments = <<0, 0, 0, 0, 0, 0, 0, 1>>

\* IpAddr::is_unspecified: 0.0.0.0, ::
is_unspecified(ip) ==
    IF ip.v = 4 THEN ip.octets = <<0, 0, 0, 0>> ELSE ip.segments = <<0, 0, 0, 0, 0, 0, 0, 0>>

\* IpAddr::is_multicast: 224.0.0.0/4, ff00::/8
is_multicast(ip) ==
    IF ip.v = 4 THEN ip.octets[1] \in 224..239 ELSE ip.segments[1] \div 256 = 255

\* a mutant of the V4 arm: 172.16.0.0/12 taken one second octet too far
is_safe_ip_v4_wide_172(octets) ==
    ~ \/ octets[1] = 10
      \/ octets[1] = 172 /\ octets[2] \in 16..32
      \/ octets[1] = 192 /\ octets[2] = 168
      \/ octets[1] = 169 /\ octets[2] = 254
      \/ octets[1] = 100 /\ octets[2] \in 64..127

\* the V4 arm of is_safe_ip
is_safe_ip_v4(octets) ==
    ~ \/ octets[1] = 10
      \/ octets[1] = 172 /\ octets[2] \in 16..31
      \/ octets[1] = 192 /\ octets[2] = 168
      \/ octets[1] = 169 /\ octets[2] = 254
      \/ octets[1] = 100 /\ octets[2] \in 64..127

\* security::is_safe_ip
is_safe_ip(ip) ==
    IF is_loopback(ip) \/ is_unspecified(ip) \/ is_multicast(ip) THEN FALSE
    ELSE IF ip.v = 4 THEN is_safe_ip_v4(ip.octets)
    ELSE IF IsSome(to_ipv4_mapped(ip))
         THEN LET v4 == Unwrap(to_ipv4_mapped(ip))
              IN  ~(is_loopback(v4) \/ is_unspecified(v4) \/ is_multicast(v4))
                  /\ is_safe_ip_v4(v4.octets)
    ELSE ~ \/ ip.segments[1] \div 512 = 126      \* (s & 0xfe00) == 0xfc00
           \/ ip.segments[1] \div 64 = 1018      \* (s & 0xffc0) == 0xfe80
           \/ ip.segments[1] \div 64 = 1019      \* (s & 0xffc0) == 0xfec0

\* the schemes the URL standard calls special, with their default ports
known_default_port(scheme) ==
    CASE scheme = <<104, 116, 116, 112>> -> Some(80)                \* "http"
      [] scheme = <<119, 115>> -> Some(80)                          \* "ws"
      [] scheme = <<104, 116, 116, 112, 115>> -> Some(443)          \* "https"
      [] scheme = <<119, 115, 115>> -> Some(443)                    \* "wss"
      [] scheme = <<102, 116, 112>> -> Some(21)                     \* "ftp"
      [] OTHER -> None

\* the characters of a URL scheme after its first letter
is_scheme_char(c) == is_ascii_alphanumeric(c) \/ c \in {43, 45, 46}

\* the leading '/' and '\' of s removed
RECURSIVE strip_slashes(_)
strip_slashes(s) ==
    IF s # <<>> /\ s[1] \in {47, 92} THEN strip_slashes(Tail(s)) ELSE s

\* the part of s before the first of '/', '?', '#', '\'
authority_of(s) ==
    LET ends == {i \in 1..Len(s) : s[i] \in {47, 63, 35, 92}}
    IN  IF ends = {} THEN s
        ELSE SubSeq(s, 1, (CHOOSE i \in ends : \A j \in ends : i <= j) - 1)

\* reqwest::Url::parse on an absolute URL without userinfo or IPv6 literal:
\* [ok, scheme, host: Option, port: Option]. A URL without a scheme is relative
\* and fails without a base; a special scheme needs a host.
Url_parse(url) ==
    LET failed == [ok |-> FALSE, scheme |-> <<>>, host |-> None, port |-> None]
        parts == split_once(url, 58)
    IN  IF ~IsSome(parts) THEN failed
        ELSE LET scheme == to_lowercase(Unwrap(parts)[1])
                 rest == Unwrap(parts)[2]
                 special == IsSome(known_default_port(scheme))
             IN  IF scheme = <<>> \/ scheme[1] \notin 97..122
                    \/ \E i \in 1..Len(scheme) : ~is_scheme_char(scheme[i])
                 THEN failed
                 ELSE IF ~special /\ ~starts_with(rest, <<47, 47>>)
                 THEN [ok |-> TRUE, scheme |-> scheme, host |-> None, port |-> None]
                 ELSE LET authority == authority_of(strip_slashes(rest))
                          hp == split_once(authority, 58)
                          host == to_lowercase(IF IsSome(hp) THEN Unwrap(hp)[1] ELSE authority)
                          port_text == IF IsSome(hp) THEN Unwrap(hp)[2] ELSE <<>>
                          port == parse_u16(port_text)
                      IN  IF host = <<>> /\ special THEN failed
                          ELSE IF port_text # <<>> /\ (~port.ok \/ port_text[1] = 43)
                          THEN failed
                          ELSE [ok |-> TRUE, scheme |-> scheme,
                                host |-> IF host = <<>> THEN None ELSE Some(host),
                                port |-> IF port_text = <<>>
                                            \/ Some(port.val) = known_default_port(scheme)
                                         THEN None ELSE Some(port.val)]

\* Url::port_or_known_default().unwrap_or(443)
port_of(parsed) ==
    IF IsSome(parsed.port) THEN Unwrap(parsed.port)
    ELSE IF IsSome(known_default_port(parsed.scheme))
    THEN Unwrap(known_default_port(parsed.scheme))
    ELSE 443

\* Maximum number of retry attempts for webhook delivery
WEBHOOK_MAX_RETRIES == 3

\* a std::net::SocketAddr
SocketAddr(ip, port) == [ip |-> ip, port |-> port]

\* addrs.into_iter().find(..) that takes the first address, safe or not
find_safe_addr_takes_first(addrs) == IF addrs = <<>> THEN None ELSE Some(addrs[1])

\* addrs.into_iter().find(|a| security::is_safe_ip(&a.ip()))
find_safe_addr(addrs) ==
    LET safe == {i \in 1..Len(addrs) : is_safe_ip(addrs[i].ip)}
    IN  IF safe = {} THEN None
        ELSE Some(addrs[CHOOSE i \in safe : \A j \in safe : i <= j])

http ==
    \* "http"
    <<104, 116, 116, 112>>

https ==
    \* "https"
    <<104, 116, 116, 112, 115>>

\* steps 1 to 3 of send_webhook: the URL, its scheme and host, one call of
\* to_socket_addrs with the answer the resolver gives, the first safe address.
\* resolved says whether the resolver was asked.
send_webhook_validate(url, answer) ==
    LET parsed == Url_parse(url)
        stop(why, asked) ==
            [outcome |-> why, resolved |-> asked, host |-> <<>>, safe_addr |-> None]
    IN  IF ~parsed.ok THEN stop("invalid_url", FALSE)
        ELSE IF parsed.scheme # http /\ parsed.scheme # https
        THEN stop("unsupported_scheme", FALSE)
        ELSE IF ~IsSome(parsed.host) THEN stop("missing_host", FALSE)
        ELSE IF ~answer.ok THEN stop("dns_failed", TRUE)
        ELSE LET addrs == [i \in 1..Len(answer.ips) |->
                              SocketAddr(answer.ips[i], port_of(parsed))]
                 safe_addr == find_safe_addr(addrs)
             IN  IF ~IsSome(safe_addr) THEN stop("all_private", TRUE)
                 ELSE [outcome |-> "ok", resolved |-> TRUE, host |-> Unwrap(parsed.host),
                       safe_addr |-> safe_addr]

\* reqwest::Client::builder().resolve(host, addr).redirect(Policy::none())
\*     .timeout(10 s).build()
pinned_client(host, addr) ==
    [resolve |-> Some([host |-> host, addr |-> addr]), redirect |-> "none",
     timeout |-> Some(10)]

\* reqwest::Client::new(): the system resolver, up to 10 redirects, no timeout
default_client == [resolve |-> None, redirect |-> "limited", timeout |-> None]

\* step 4 of send_webhook: the pinned client, or, when build() fails,
\* unwrap_or_else(|_| Client::new()), which returns the default client or panics
build_client(built, host, addr) ==
    CASE built = "built" -> Some(pinned_client(host, addr))
      [] built = "fallback" -> Some(default_client)
      [] OTHER -> None

\* the request body
body_json ==
    \* "{}"
    <<123, 125>>

\* Hmac::<Sha256> of msg under key, hex encoded; taken as collision free
hmac_sha256_hex(key, msg) == <<35>> \o key \o <<124>> \o msg

\* the signature send_webhook computes: hex(HMAC-SHA256(secret, body)) or None
signature_of(secret) ==
    IF IsSome(secret) THEN Some(hmac_sha256_hex(Unwrap(secret), body_json)) ELSE None

sha256_prefix ==
    \* "sha256="
    <<115, 104, 97, 50, 53, 54, 61>>

\* the POST of one attempt: Content-Type, the body, and the signature header
\* when there is a signature
webhook_request(url, signature) ==
    [method |-> "POST", url |-> url, body |-> body_json,
     headers |->
        IF IsSome(signature)
        THEN [content_type |-> application_json,
              x_riley_cms_signature |-> sha256_prefix \o Unwrap(signature)]
        ELSE [content_type |-> application_json]]

\* fire_webhooks with an empty secret treated as no secret
fire_webhooks_secret_ignores_empty(webhooks, environment) ==
    IF IsSome(webhooks.secret)
    THEN LET v == resolve(Unwrap(webhooks.secret), environment)
         IN  IF v.ok /\ v.val # <<>> THEN [deliver |-> TRUE, secret |-> Some(v.val)]
             ELSE [deliver |-> TRUE, secret |-> None]
    ELSE [deliver |-> TRUE, secret |-> None]

\* fire_webhooks: the secret resolved once; an empty or unresolvable secret
\* ends the delivery
fire_webhooks_secret(webhooks, environment) ==
    IF IsSome(webhooks.secret)
    THEN LET v == resolve(Unwrap(webhooks.secret), environment)
         IN  IF v.ok /\ v.val = <<>> THEN [deliver |-> FALSE, secret |-> None]
             ELSE IF v.ok THEN [deliver |-> TRUE, secret |-> Some(v.val)]
             ELSE [deliver |-> FALSE, secret |-> None]
    ELSE [deliver |-> TRUE, secret |-> None]

\* a task as tokio::spawn starts it: send_webhook(&url, secret) not yet polled
spawned_task(url, secret) ==
    [url |-> url, secret |-> secret, pc |-> "spawned", validation |-> "none",
     answer |-> None, lookups |-> 0, host |-> <<>>, safe_addr |-> None, client |-> None,
     signature |-> None, attempt |-> 0, result |-> None, sent |-> None]

\* RileyCms::fire_webhooks: the tasks it spawns, one per URL
fire_webhooks(cfg, environment) ==
    IF IsSome(cfg.webhooks)
    THEN LET webhooks == Unwrap(cfg.webhooks)
             s == fire_webhooks_secret(webhooks, environment)
         IN  IF s.deliver
             THEN [i \in 1..Len(webhooks.on_content_update) |->
                      spawned_task(webhooks.on_content_update[i], s.secret)]
             ELSE <<>>
    ELSE <<>>

\* the match on request.send().await: is_success (2xx) and is_client_error (4xx)
\* return, every other response and every error go on to the next attempt
after_send(outcome) ==
    IF outcome.ok /\ outcome.status \in 200..299 THEN "return"
    ELSE IF outcome.ok /\ outcome.status \in 400..499 THEN "return"
    ELSE "retry"

\* the addresses a client may connect to for the host: the pinned one, or
\* whatever the resolver answers when the client asks again
connect_ips(client, host, rebind_ips) ==
    IF IsSome(client.resolve) /\ Unwrap(client.resolve).host = host
    THEN {Unwrap(client.resolve).addr.ip}
    ELSE rebind_ips

\* the hosts a client may be redirected to while it sends: none under
\* Policy::none(), which hands the 3xx response back
redirect_hops(client, hops) == IF client.redirect = "none" THEN {<<>>} ELSE hops

\* ------------------------------------------------------------------------
\* Webhook delivery: one call of fire_webhooks and the tasks it spawns
\* ------------------------------------------------------------------------

loopback_ip == V4(127, 0, 0, 1)

private_ip == V4(10, 0, 0, 1)

lan_ip == V4(192, 168, 1, 1)

metadata_ip == V4(169, 254, 169, 254)

public_ip == V4(93, 184, 216, 34)

\* ::ffff:169.254.169.254
mapped_metadata_ip == V6(<<0, 0, 0, 0, 0, 65535, 43518, 43518>>)

\* fc00::1
unique_local_ip == V6(<<64512, 0, 0, 0, 0, 0, 0, 1>>)

\* 2606:4700::1111
public_ip6 == V6(<<9734, 18176, 0, 0, 0, 0, 0, 4369>>)

\* what to_socket_addrs may return for a host: an error, or its addresses
DnsAnswers ==
    {[ok |-> FALSE, ips |-> <<>>]}
    \cup {[ok |-> TRUE, ips |-> ips] :
            ips \in {<<loopback_ip>>, <<private_ip, public_ip>>,
                     <<mapped_metadata_ip, lan_ip>>, <<unique_local_ip, public_ip6>>}}

\* what a resolver asked a second time may answer
RebindIps == {loopback_ip, public_ip}

\* where a receiver's 3xx may send a client that follows redirects
RedirectHops == {<<>>, <<metadata_ip>>}

\* results of request.send().await: a response with its status, or an error
SendOutcomes ==
    {[ok |-> TRUE, status |-> s] : s \in {200, 302, 404, 503}}
    \cup {[ok |-> FALSE, status |-> 0]}

url_http_a ==
    \* "http://a"
    <<104, 116, 116, 112, 58, 47, 47, 97>>

url_https_b ==
    \* "https://B:8443/hook"
    <<104, 116, 116, 112, 115, 58, 47, 47, 66, 58, 56, 52, 52, 51, 47, 104, 111, 111, 107>>

url_ftp_a ==
    \* "ftp://a"
    <<102, 116, 112, 58, 47, 47, 97>>

url_relative ==
    \* "a/hook"
    <<97, 47, 104, 111, 111, 107>>

\* on_content_update lists of a [webhooks] section
WebhookUrlLists ==
    {<<>>, <<url_http_a>>, <<url_https_b>>, <<url_ftp_a>>, <<url_relative>>,
     <<url_http_a, url_https_b>>, <<url_ftp_a, url_http_a>>}

\* secrets of a [webhooks] section with the environment: none, "k", "",
\* and "env:S" with S unset, S="" and S="k"
WebhookSecrets ==
    {[secret |-> None, env |-> <<>>],
     [secret |-> Some(<<107>>), env |-> <<>>],
     [secret |-> Some(<<>>), env |-> <<>>]}
    \cup {[secret |-> Some(<<101, 110, 118, 58, 83>>), env |-> e] :
            e \in {<<>>, (<<83>> :> <<>>), (<<83>> :> <<107>>)}}

InitWebhook ==
    /\ \/ /\ config = [webhooks |-> None]
          /\ env = <<>>
       \/ \E s \in WebhookSecrets, urls \in WebhookUrlLists :
             /\ config = [webhooks |-> Some([secret |-> s.secret,
                                             on_content_update |-> urls])]
             /\ env = s.env
    /\ WebhookUnused
    /\ request = no_request
    /\ response = None
    /\ wire = None
    /\ handler = "idle"
    /\ child = no_child
    /\ stdin_task = no_stdin_task
    /\ stderr_task = "none"
    /\ completion = no_completion
    /\ post_push = no_post_push
    /\ auth_checks = 0
    /\ reloads = 0
    /\ webhooks_fired = 0
    /\ IndexUnused
    /\ ApiUnused
    /\ ContentUnused
    /\ SecurityUnused

\* RileyCms::fire_webhooks, called by the post-push task
FireWebhooks ==
    /\ fire = "idle"
    /\ fire' = "returned"
    /\ webhook_tasks' = fire_webhooks(config, env)
    /\ UNCHANGED <<config, env, contentVars, securityVars, gitVars, indexVars, apiVars>>

\* send_webhook, steps 1 to 3: the task ends without a client when the URL, the
\* resolution or every address is refused
SendWebhookValidate(i, answer) ==
    /\ webhook_tasks[i].pc = "spawned"
    /\ LET v == send_webhook_validate(webhook_tasks[i].url, answer)
       IN  webhook_tasks' =
              [webhook_tasks EXCEPT
                  ![i] = [@ EXCEPT !.validation = v.outcome,
                                   !.answer = IF v.resolved THEN Some(answer) ELSE None,
                                   !.lookups = IF v.resolved THEN 1 ELSE 0,
                                   !.host = v.host,
                                   !.safe_addr = v.safe_addr,
                                   !.pc = IF v.outcome = "ok" THEN "build_client"
                                          ELSE "done"]]
    /\ UNCHANGED <<fire, config, env, contentVars, securityVars, gitVars, indexVars, apiVars>>

\* send_webhook, step 4 and the signature: Hmac::new_from_slice accepts a key of
\* any length, so its error arm is never taken
SendWebhookBuildClient(i, built) ==
    /\ webhook_tasks[i].pc = "build_client"
    /\ LET task == webhook_tasks[i]
           client == build_client(built, task.host, Unwrap(task.safe_addr))
       IN  webhook_tasks' =
              [webhook_tasks EXCEPT
                  ![i] = IF IsSome(client)
                         THEN [@ EXCEPT !.client = client,
                                        !.signature = signature_of(task.secret),
                                        !.pc = "send"]
                         ELSE [@ EXCEPT !.pc = "panicked"]]
    /\ UNCHANGED <<fire, config, env, contentVars, securityVars, gitVars, indexVars, apiVars>>

\* one pass of the retry loop: the POST is sent to ip, through hops when the
\* client follows redirects, and the result decides between return and the next
\* pass (after the backoff sleep); the loop ends after WEBHOOK_MAX_RETRIES passes
SendWebhookPost(i, outcome, ip, hops) ==
    /\ webhook_tasks[i].pc = "send"
    /\ LET task == webhook_tasks[i]
           client == Unwrap(task.client)
       IN  /\ ip \in connect_ips(client, task.host, RebindIps)
           /\ hops \in redirect_hops(client, RedirectHops)
           /\ webhook_tasks' =
                 [webhook_tasks EXCEPT
                     ![i] = [@ EXCEPT
                                !.sent = Some([request |->
                                                  webhook_request(task.url, task.signature),
                                               ip |-> ip, hops |-> hops]),
                                !.lookups = @ + (IF IsSome(client.resolve) THEN 0 ELSE 1),
                                !.attempt = @ + 1,
                                !.result = Some(outcome),
                                !.pc = IF after_send(outcome) = "retry"
                                          /\ task.attempt + 1 < WEBHOOK_MAX_RETRIES
                                       THEN "send" ELSE "done"]]
    /\ UNCHANGED <<fire, config, env, contentVars, securityVars, gitVars, indexVars, apiVars>>

NextWebhook ==
    \/ FireWebhooks
    \/ \E i \in DOMAIN webhook_tasks, answer \in DnsAnswers : SendWebhookValidate(i, answer)
    \/ \E i \in DOMAIN webhook_tasks, built \in {"built", "fallback", "panicked"} :
          SendWebhookBuildClient(i, built)
    \/ \E i \in DOMAIN webhook_tasks, outcome \in SendOutcomes,
          ip \in RebindIps \cup {public_ip6}, hops \in RedirectHops :
          SendWebhookPost(i, outcome, ip, hops)

SpecWebhook == InitWebhook /\ [][NextWebhook]_vars

\* ------------------------------------------------------------------------
\* Properties of webhook delivery (checked under SpecWebhook)
\* ------------------------------------------------------------------------

\* the task has made no POST attempt
nothing_sent(task) == task.attempt = 0 /\ ~IsSome(task.sent)

\* the host of the task's URL must not be contacted: the scheme is neither
\* http nor https, or the resolution failed, or none of its addresses is safe
must_not_contact(task) ==
    \/ Url_parse(task.url).ok /\ Url_parse(task.url).scheme \notin {http, https}
    \/ /\ IsSome(task.answer)
       /\ \/ ~Unwrap(task.answer).ok
          \/ \A k \in DOMAIN Unwrap(task.answer).ips : ~is_safe_ip(Unwrap(task.answer).ips[k])

\* C11: send_webhook sends no HTTP request for a URL whose scheme is neither
\* http nor https, whose resolution fails, or whose addresses, returned by its
\* single resolution, all fail is_safe_ip.
C11_NoRequestToUnsafeHost ==
    \A i \in DOMAIN webhook_tasks :
        LET task == webhook_tasks[i]
        IN  (task.pc # "spawned" /\ must_not_contact(task))
               => nothing_sent(task) /\ task.pc = "done" /\ task.lookups <= 1

\* C11 witness: a host that resolves to ::ffff:169.254.169.254 and 192.168.1.1
\* was refused after one resolution
C11_Witness_AllAddressesPrivate ==
    \E i \in DOMAIN webhook_tasks :
        /\ webhook_tasks[i].pc = "done"
        /\ webhook_tasks[i].answer = Some([ok |-> TRUE, ips |-> <<mapped_metadata_ip, lan_ip>>])
        /\ webhook_tasks[i].lookups = 1
        /\ nothing_sent(webhook_tasks[i])

\* C12: every POST attempt of a task connects to the address validated at the
\* start of the task: the host is resolved once and no redirect is followed.
C12_PostsGoToValidatedAddress ==
    \A i \in DOMAIN webhook_tasks :
        LET task == webhook_tasks[i]
        IN  IsSome(task.sent)
               => /\ Unwrap(task.sent).ip = Unwrap(task.safe_addr).ip
                  /\ Unwrap(task.sent).hops = <<>>
                  /\ task.lookups = 1

\* the configured secret, resolved: None when no secret is configured
configured_secret ==
    IF IsSome(config.webhooks) /\ IsSome(Unwrap(config.webhooks).secret)
    THEN Some(resolve(Unwrap(Unwrap(config.webhooks).secret), env))
    ELSE None

\* C13: with a secret configured every webhook POST carries
\* X-Riley-Cms-Signature: sha256=<hex HMAC-SHA256(secret, "{}")>, and with a
\* secret that is empty or cannot be resolved fire_webhooks starts no delivery.
C13_SignedOrNothing ==
    IsSome(configured_secret)
       => LET secret == Unwrap(configured_secret)
          IN  /\ (~secret.ok \/ secret.val = <<>>) => webhook_tasks = <<>>
              /\ \A i \in DOMAIN webhook_tasks :
                    IsSome(webhook_tasks[i].sent)
                       => LET req == Unwrap(webhook_tasks[i].sent).request
                          IN  /\ req.body = <<123, 125>>
                              /\ "x_riley_cms_signature" \in DOMAIN req.headers
                              /\ req.headers.x_riley_cms_signature
                                    = sha256_prefix \o hmac_sha256_hex(secret.val, req.body)

\* C13 witness: with the secret "env:S" and S="k", a POST went out signed
C13_Witness_SignedPost ==
    /\ configured_secret = Some([ok |-> TRUE, val |-> <<107>>])
    /\ env # <<>>
    /\ \E i \in DOMAIN webhook_tasks :
          /\ IsSome(webhook_tasks[i].sent)
          /\ "x_riley_cms_signature" \in DOMAIN Unwrap(webhook_tasks[i].sent).request.headers

\* the result the claim allows a next attempt after: an error or a 5xx
retryable(result) == ~result.ok \/ result.status \in 500..599

\* C14: send_webhook makes at most 3 POST attempts for a URL, ends after the
\* third, and makes a further attempt only after a network error or a 5xx
\* response, never after a 2xx or a 4xx.
C14_RetryDiscipline ==
    /\ [](\A i \in DOMAIN webhook_tasks :
             /\ webhook_tasks[i].attempt <= 3
             /\ webhook_tasks[i].pc = "send" => webhook_tasks[i].attempt < 3)
    /\ [][\A i \in DOMAIN webhook_tasks :
             (i \in DOMAIN webhook_tasks' /\ webhook_tasks[i].attempt >= 1
              /\ webhook_tasks'[i].attempt > webhook_tasks[i].attempt)
                => retryable(Unwrap(webhook_tasks[i].result))]_vars

\* ------------------------------------------------------------------------
\* Cache headers of the API (checked under SpecApi)
\* ------------------------------------------------------------------------

\* the routes that serve content
content_routes == {"list_posts", "list_series", "get_post", "get_post_raw", "get_series"}

\* C15: a successful content response to an Admin request carries
\* Cache-Control: private, no-store and no ETag; one to a Public request carries
\* Cache-Control: public, max-age, stale-while-revalidate and the index ETag;
\* on every content endpoint, list endpoints called without flags included.
C15_CacheHeadersFollowAuthStatus ==
    (api_pc = "done" /\ api_request.route \in content_routes
     /\ Unwrap(api_response).status = 200)
       => LET headers == Unwrap(api_response).headers
          IN  IF auth_status = Admin
              THEN /\ cache_control \in DOMAIN headers
                   /\ headers[cache_control] = private_no_store
                   /\ etag_header \notin DOMAIN headers
              ELSE /\ cache_control \in DOMAIN headers
                   /\ headers[cache_control] = public_cache_control(config)
                   /\ etag_header \in DOMAIN headers
                   /\ headers[etag_header] = compute_etag(index.posts, index.series)

\* ------------------------------------------------------------------------
\* Responses of the running server (checked under SpecGit)
\* ------------------------------------------------------------------------

\* the response carries the three fixed security headers with their values
has_security_headers(resp) ==
    /\ x_content_type_options \in DOMAIN resp.headers
    /\ resp.headers[x_content_type_options] = nosniff
    /\ x_frame_options \in DOMAIN resp.headers
    /\ resp.headers[x_frame_options] = DENY
    /\ content_security_policy \in DOMAIN resp.headers
    /\ resp.headers[content_security_policy] = default_src_none

\* C16: every response the running server sends has X-Content-Type-Options:
\* nosniff, X-Frame-Options: DENY and Content-Security-Policy: default-src 'none',
\* error responses, Git CGI responses and rate-limit rejections included.
C16_SecurityHeadersOnEveryResponse ==
    IsSome(wire) => has_security_headers(Unwrap(wire))

\* internal_error: 500 with the generic body, whatever the error was
internal_error ==
    json_error(500,
               \* "Internal server error"
               <<73, 110, 116, 101, 114, 110, 97, 108, 32, 115, 101, 114, 118, 101, 114, 32, 101,
                 114, 114, 111, 114>>)

\* C17: every failure response whose status is not 400, 401, 404 or 413 has
\* status 500 and the body {"error":"Internal server error"}; git_handler too
\* returns no other error text.
C17_GenericInternalErrorBody ==
    (IsSome(response) /\ Unwrap(response).status >= 400
     /\ Unwrap(response).status \notin {400, 401, 404, 413})
       => /\ Unwrap(response).status = 500
          /\ Unwrap(response).body = internal_error.body

\* the CGI variables run_cgi may give the child
cgi_variable_names ==
    {GIT_PROJECT_ROOT, GIT_HTTP_EXPORT_ALL, PATH_INFO, REQUEST_METHOD,
     QUERY_STRING, CONTENT_TYPE, CONTENT_LENGTH}

\* C18: the environment of the spawned git-http-backend holds GIT_PROJECT_ROOT,
\* GIT_HTTP_EXPORT_ALL, PATH_INFO, REQUEST_METHOD and, when the request has
\* them, QUERY_STRING, CONTENT_TYPE and CONTENT_LENGTH, and nothing else: no
\* variable of the server process's own environment is visible to the child.
C18_ChildEnvIsOnlyCgiVariables ==
    cgi_ran
       => /\ {GIT_PROJECT_ROOT, GIT_HTTP_EXPORT_ALL, PATH_INFO, REQUEST_METHOD}
                \subseteq DOMAIN child.env
          /\ QUERY_STRING \in DOMAIN child.env <=> IsSome(request.line.query_string)
          /\ CONTENT_TYPE \in DOMAIN child.env <=> IsSome(request.line.content_type)
          /\ CONTENT_LENGTH \in DOMAIN child.env <=> IsSome(request.line.content_length)
          /\ DOMAIN child.env \subseteq cgi_variable_names

\* ------------------------------------------------------------------------
\* Failed refresh (checked under SpecIndex)
\* ------------------------------------------------------------------------

\* the refresh of push p has returned an error
refresh_failed(p) == refresh_task[p].pc = "done" /\ ~refresh_task[p].ok

\* C19: a refresh that fails leaves the index cell exactly as it was: the step
\* in which it returns its error changes neither the index nor its lock, and it
\* has never held the write guard nor assigned a field, so every later read
\* returns the posts, series and ETag of before.
C19_FailedRefreshLeavesIndex ==
    /\ [][\A p \in DOMAIN refresh_task :
             (~refresh_failed(p) /\ refresh_failed(p)')
                => /\ refresh_task[p].pc = "load"
                   /\ cache' = cache
                   /\ cache_lock' = cache_lock]_vars
    /\ [](\A p \in DOMAIN refresh_task :
             refresh_failed(p)
                => /\ refresh_task[p].field = 1
                   /\ refresh_task[p].new_cache = None
                   /\ cache_lock.writer # p)

\* C19 witness: the refresh of the first push succeeded, that of the second
\* failed, and a read that began after both returned the index of the first
C19_Witness_ReadAfterFailedRefresh ==
    /\ refresh_failed(2)
    /\ refresh_task[1].pc = "done" /\ refresh_task[1].ok
    /\ cache = ContentCache_load(1)
    /\ \E r \in DOMAIN reader :
          /\ reader[r].pc = "done"
          /\ reader[r].op = "get_series"
          /\ reader[r].after = {1}
          /\ reader[r].seen = <<1, 1>>

\* ------------------------------------------------------------------------
\* The child after a failed header read (checked under SpecGit)
\* ------------------------------------------------------------------------

\* read_cgi_headers gave up on the child's header block for its size
headers_too_large ==
    /\ cgi_ran
    /\ ~read_cgi_headers(child.stdout).ok
    /\ contains(read_cgi_headers(child.stdout).err,
                \* "CGI headers too large"
                <<67, 71, 73, 32, 104, 101, 97, 100, 101, 114, 115, 32, 116, 111, 111, 32, 108,
                  97, 114, 103, 101>>)

\* C20: when the child's header block exceeds 16 KiB before the empty line, the
\* request is answered with 500 and the child is killed: it is not left running
\* once run_cgi has returned the error.
C20_OversizedHeadersKillChild ==
    (handler = "done" /\ headers_too_large)
       => /\ Unwrap(response).status = 500
          /\ child.state # "running"

\* ------------------------------------------------------------------------
\* The completion timeout (checked under SpecGit)
\* ------------------------------------------------------------------------

\* wait has returned the error of the elapsed timeout
wait_timed_out == post_push.failed /\ post_push.err = Git_operation_timed_out

\* C21: when the child has not exited as the completion timeout elapses, the
\* child is killed, wait returns an error, and the post-push task ends without
\* a reload and without firing webhooks for that request.
C21_TimeoutKillsAndSkipsReload ==
    /\ [](wait_timed_out
             => /\ child.state = "killed"
                /\ post_push.pc = "done"
                /\ reloads = 0
                /\ webhooks_fired = 0)
    /\ [][wait_timed_out => UNCHANGED <<child, post_push, reloads, webhooks_fired>>]_vars

\* C21 witness: the timeout ended a push whose CGI response was 200
C21_Witness_PushTimedOut ==
    /\ wait_timed_out
    /\ is_write_operation(request.path)
    /\ IsSome(response)
    /\ Unwrap(response).status = 200
    /\ child.state = "killed"

\* ------------------------------------------------------------------------
\* Reaping of the CGI child (checked under SpecGitFair)
\* ------------------------------------------------------------------------

\* C22: every child run_cgi spawns is eventually waited on or killed, for reads
\* and writes, successful or not, and also when run_cgi returns an error after
\* the spawn: no spawned child is left un-reaped.
C22_EveryChildIsReaped ==
    cgi_ran ~> child.owner = "reaped"

\* ------------------------------------------------------------------------
\* The content directory: ContentCache::load and the read methods on what it
\* loaded
\* ------------------------------------------------------------------------

\* ContentCache::load_post: the Post of a directory with config.toml and
\* content.mdx
load_post(dir, slug, series_slug) ==
    [slug |-> slug, title |-> dir.config.title, goes_live_at |-> dir.config.goes_live_at,
     series_slug |-> series_slug, content |-> dir.content, order |-> dir.config.order]

\* the comparator load_series hands to sort_by
member_order(a, b) ==
    IF IsSome(a.order) /\ IsSome(b.order)
    THEN date_cmp(Unwrap(a.order), Unwrap(b.order))
    ELSE IF IsSome(a.order) THEN "Less"
    ELSE IF IsSome(b.order) THEN "Greater"
    ELSE str_cmp(a.slug, b.slug)

\* slice::sort_by with member_order: stable, as sort_by above
RECURSIVE insert_member(_, _)
insert_member(sorted, x) ==
    IF sorted = <<>> THEN <<x>>
    ELSE IF member_order(x, sorted[Len(sorted)]) = "Less"
    THEN Append(insert_member(SubSeq(sorted, 1, Len(sorted) - 1), x), sorted[Len(sorted)])
    ELSE Append(sorted, x)

RECURSIVE sort_members(_)
sort_members(items) ==
    IF items = <<>> THEN <<>>
    ELSE insert_member(sort_members(SubSeq(items, 1, Len(items) - 1)), items[Len(items)])

\* ContentCache::load_series: the posts of the sub-directories in the order
\* read_dir yields them, sorted; post_slugs are the slugs of the sorted posts
load_series(dir, slug, read_dir) ==
    LET posts == sort_members([i \in 1..Len(read_dir) |->
                                  load_post(dir.dirs[read_dir[i]], read_dir[i], Some(slug))])
    IN  [series_data |-> [slug |-> slug, title |-> dir.config.title,
                          goes_live_at |-> dir.config.goes_live_at,
                          post_slugs |-> [i \in 1..Len(posts) |-> posts[i].slug]],
         posts |-> posts]

\* for post in series_posts { posts.insert(post.slug.clone(), post) }
RECURSIVE insert_all(_, _)
insert_all(posts, loaded_posts) ==
    IF loaded_posts = <<>> THEN posts
    ELSE insert_all((Head(loaded_posts).slug :> Head(loaded_posts)) @@ posts,
                    Tail(loaded_posts))

\* the loop of ContentCache::load over the entries read_dir yields: a directory
\* with series.toml is a series, one with config.toml and content.mdx a post;
\* HashMap::insert replaces the value of a key already present
RECURSIVE load_loop(_, _, _, _, _)
load_loop(tree, read_dir, member_read_dir, posts, series) ==
    IF read_dir = <<>> THEN [posts |-> posts, series |-> series]
    ELSE
    LET slug == Head(read_dir)
        dir == tree[slug]
    IN  IF dir.kind = "series"
        THEN LET loaded == load_series(dir, slug, member_read_dir[slug])
             IN  load_loop(tree, Tail(read_dir), member_read_dir,
                           insert_all(posts, loaded.posts),
                           (slug :> loaded.series_data) @@ series)
        ELSE load_loop(tree, Tail(read_dir), member_read_dir,
                       (slug :> load_post(dir, slug, None)) @@ posts, series)

\* ContentCache::load: the maps of the loop and their ETag
ContentCache_load_dir(tree, read_dir, member_read_dir) ==
    LET maps == load_loop(tree, read_dir, member_read_dir, <<>>, <<>>)
    IN  [posts |-> maps.posts, series |-> maps.series,
         etag |-> compute_etag(maps.posts, maps.series)]

\* the orders in which fs::read_dir may yield the entries of the content
\* directory and of each series directory in it
read_dir_orders(tree) ==
    LET series_dirs == {s \in DOMAIN tree : tree[s].kind = "series"}
    IN  {[top |-> t, members |-> m] :
            t \in iteration_orders(tree),
            m \in {f \in [series_dirs -> UNION {iteration_orders(tree[s].dirs) :
                                                  s \in series_dirs}] :
                      \A s \in series_dirs : f[s] \in iteration_orders(tree[s].dirs)}}

slug_c == <<99>>

slug_t == <<116>>

\* a post directory: config.toml (title, goes_live_at, order) and content.mdx
post_dir(title, goes_live_at, order, content) ==
    [kind |-> "post",
     config |-> [title |-> title, goes_live_at |-> goes_live_at, order |-> order],
     content |-> content]

\* a series directory: series.toml (title, goes_live_at) and its sub-directories
series_dir(title, goes_live_at, dirs) ==
    [kind |-> "series", config |-> [title |-> title, goes_live_at |-> goes_live_at],
     dirs |-> dirs]

\* the map of the names whose option holds a directory
dirs_of(options) ==
    [k \in {n \in DOMAIN options : IsSome(options[n])} |-> Unwrap(options[k])]

\* a post dated 1 with order 1, title "T" and content "x"
dated_post == post_dir(<<84>>, Some(1), Some(1), <<120>>)

\* a draft without order
draft_post == post_dir(<<84>>, None, None, <<120>>)

\* post directories of the name "a": a draft, a post dated 1, the same with
\* another title, the same with another content, and a post dated 3
PostDirsA ==
    {draft_post,
     dated_post,
     post_dir(<<85>>, Some(1), Some(1), <<120>>),
     post_dir(<<84>>, Some(1), Some(1), <<121>>),
     post_dir(<<84>>, Some(3), None, <<120>>)}

\* series directories of the name "s", dated 1: with the members "b" (dated 1,
\* order 1) and "c" (the same, or a draft without order), or without them
SeriesDirsS ==
    {series_dir(<<83>>, Some(1), dirs_of((slug_b :> b) @@ (slug_c :> c))) :
        b \in {None, Some(dated_post)}, c \in {None, Some(dated_post), Some(draft_post)}}

\* series directories of the name "t": without members, a draft or dated 1
SeriesDirsT == {series_dir(<<83>>, g, <<>>) : g \in {None, Some(1)}}

\* content directories: "a" and "b" hold posts, "s" and "t" series, each name
\* present or not; "b" is also the name of a member of "s"
ContentTrees ==
    {dirs_of((slug_a :> a) @@ (slug_b :> b) @@ (slug_s :> s) @@ (slug_t :> t)) :
        a \in {None} \cup {Some(d) : d \in PostDirsA},
        b \in {None, Some(dated_post)},
        s \in {None} \cup {Some(d) : d \in SeriesDirsS},
        t \in {None} \cup {Some(d) : d \in SeriesDirsT}}

\* the trees a push leads to from a tree: the same tree, or one that differs
\* from it in one directory of the content directory
pushes_from(tree) ==
    {new \in ContentTrees :
        Cardinality({k \in DOMAIN new \cup DOMAIN tree :
                        ~(k \in DOMAIN new /\ k \in DOMAIN tree /\ new[k] = tree[k])}) <= 1}

\* ListOptions of a call: the two flags, limit absent, 0, 1 or above
\* MAX_PAGE_SIZE, offset absent, 1 or 3
ListOptionsSet ==
    [include_drafts : BOOLEAN, include_scheduled : BOOLEAN,
     limit : {None, Some(0), Some(1), Some(MAX_PAGE_SIZE + 1)},
     offset : {None, Some(1), Some(3)}]

\* the values of Utc::now() at a call: the date 1 itself, and 2
CallTimes == {1, 2}

InitContent ==
    /\ repo \in ContentTrees
    /\ \E o \in read_dir_orders(repo) :
          content_cache = ContentCache_load_dir(repo, o.top, o.members)
    /\ call = None
    /\ config = [auth |-> None, git |-> None]
    /\ env = <<>>
    /\ request = no_request
    /\ response = None
    /\ wire = None
    /\ handler = "idle"
    /\ child = no_child
    /\ stdin_task = no_stdin_task
    /\ stderr_task = "none"
    /\ completion = no_completion
    /\ post_push = no_post_push
    /\ auth_checks = 0
    /\ reloads = 0
    /\ webhooks_fired = 0
    /\ IndexUnused
    /\ ApiUnused
    /\ WebhookUnused
    /\ SecurityUnused

\* a push changes the content directory and RileyCms::refresh replaces the
\* ContentCache by one loaded from it
ContentRefresh(new_repo, o) ==
    /\ call = None
    /\ repo' = new_repo
    /\ content_cache' = ContentCache_load_dir(new_repo, o.top, o.members)
    /\ UNCHANGED <<call, config, env, gitVars, indexVars, apiVars, webhookVars, securityVars>>

\* ContentCache::list_posts is called at time t
ContentListPosts(opts, order, t) ==
    /\ call = None
    /\ call' = Some([op |-> "list_posts", opts |-> opts, now |-> t, slug |-> <<>>,
                     result |-> <<ContentCache_list_posts(content_cache, order, opts, t)>>])
    /\ UNCHANGED <<repo, content_cache, config, env, gitVars, indexVars, apiVars, webhookVars, securityVars>>

\* ContentCache::list_series is called at time t
ContentListSeries(opts, order, t) ==
    /\ call = None
    /\ call' = Some([op |-> "list_series", opts |-> opts, now |-> t, slug |-> <<>>,
                     result |-> <<ContentCache_list_series(content_cache, order, opts, t)>>])
    /\ UNCHANGED <<repo, content_cache, config, env, gitVars, indexVars, apiVars, webhookVars, securityVars>>

\* ContentCache::get_series is called
ContentGetSeries(slug) ==
    /\ call = None
    /\ call' = Some([op |-> "get_series", opts |-> no_query, now |-> 0, slug |-> slug,
                     result |-> ContentCache_get_series(content_cache, slug)])
    /\ UNCHANGED <<repo, content_cache, config, env, gitVars, indexVars, apiVars, webhookVars, securityVars>>

\* the call returns
ContentReturn ==
    /\ call # None
    /\ call' = None
    /\ UNCHANGED <<repo, content_cache, config, env, gitVars, indexVars, apiVars, webhookVars, securityVars>>

\* pushes_from and read_dir_orders of each content directory, computed once
content_pushes == [tree \in ContentTrees |-> pushes_from(tree)]

content_read_dirs == [tree \in ContentTrees |-> read_dir_orders(tree)]

NextContent ==
    \/ /\ call = None
       /\ \E new_repo \in content_pushes[repo] :
             \E o \in content_read_dirs[new_repo] : ContentRefresh(new_repo, o)
    \/ /\ call = None
       /\ \E opts \in ListOptionsSet, t \in CallTimes :
             \E order \in iteration_orders(content_cache.posts) :
                ContentListPosts(opts, order, t)
    \/ /\ call = None
       /\ \E opts \in ListOptionsSet, t \in CallTimes :
             \E order \in iteration_orders(content_cache.series) :
                ContentListSeries(opts, order, t)
    \/ \E slug \in {slug_s, slug_t} : ContentGetSeries(slug)
    \/ ContentReturn

SpecContent == InitContent /\ [][NextContent]_vars

\* ------------------------------------------------------------------------
\* Properties of the content index (checked under SpecContent)
\* ------------------------------------------------------------------------

\* the step is a refresh: the ContentCache is replaced by a loaded one
refreshed == call = None /\ call' = None

\* C23: after a refresh the new ETag equals the previous ETag if and only if
\* the served content is unchanged: an unchanged tree keeps the ETag, and a
\* change of a post's content bytes, or of a post's or series' metadata such as
\* title or goes_live_at, gives a different ETag.
C23_EtagChangesWithContent ==
    [][refreshed
          => (content_cache'.etag = content_cache.etag
                 <=> (/\ content_cache'.posts = content_cache.posts
                      /\ content_cache'.series = content_cache.series))]_vars

\* the call in progress, and the map its list method reads
the_call == Unwrap(call)

listed_map == IF the_call.op = "list_posts" THEN content_cache.posts ELSE content_cache.series

\* an item passes the visibility filter of the options at time t
passes_filter(goes_live_at, opts, t) ==
    \/ ~IsSome(goes_live_at) /\ opts.include_drafts
    \/ IsSome(goes_live_at) /\ Unwrap(goes_live_at) > t /\ opts.include_scheduled
    \/ IsSome(goes_live_at) /\ Unwrap(goes_live_at) <= t

\* the whole filtered and sorted list of the call, for an iteration order
whole_list(order) ==
    LET opts == [the_call.opts EXCEPT !.limit = Some(MAX_PAGE_SIZE), !.offset = Some(0)]
    IN  IF the_call.op = "list_posts"
        THEN ContentCache_list_posts(content_cache, order, opts, the_call.now).items
        ELSE ContentCache_list_series(content_cache, order, opts, the_call.now).items

\* C24: list_posts and list_series return as items the filtered, sorted
\* sequence from position offset (default 0) for at most min(limit, 500) items
\* (limit default 50), and as total the number of items passing the visibility
\* filter whatever limit and offset are; limit = 0 or offset >= total gives no
\* items and the same total.
C24_PageOfFilteredList ==
    (IsSome(call) /\ the_call.op \in {"list_posts", "list_series"})
       => LET opts == the_call.opts
              result == the_call.result[1]
              limit == min(IF IsSome(opts.limit) THEN Unwrap(opts.limit) ELSE 50, 500)
              offset == IF IsSome(opts.offset) THEN Unwrap(opts.offset) ELSE 0
              total == Cardinality({k \in DOMAIN listed_map :
                                       passes_filter(listed_map[k].goes_live_at, opts,
                                                     the_call.now)})
          IN  /\ result.total = total
              /\ result.limit = limit
              /\ result.offset = offset
              /\ Len(result.items) = IF offset >= total THEN 0 ELSE min(limit, total - offset)
              /\ \E order \in iteration_orders(listed_map) :
                    /\ Len(whole_list(order)) = total
                    /\ \A i \in 1..Len(result.items) :
                          result.items[i] = whole_list(order)[offset + i]

\* C24 witness: of three posts that pass the filter, offset 1 and limit 1 give
\* the second alone
C24_Witness_SecondOfThree ==
    /\ IsSome(call)
    /\ the_call.op = "list_posts"
    /\ the_call.opts.limit = Some(1)
    /\ the_call.opts.offset = Some(1)
    /\ the_call.result[1].total = 3
    /\ Len(the_call.result[1].items) = 1
    /\ \E order \in iteration_orders(content_cache.posts) :
          the_call.result[1].items[1] = whole_list(order)[2]

\* item a may stand right before item b: a is dated later, or equally dated
\* (or both undated) with the lesser slug, or a is dated and b is not
listed_before(a, b) ==
    IF IsSome(a.goes_live_at) /\ IsSome(b.goes_live_at)
    THEN \/ Unwrap(a.goes_live_at) > Unwrap(b.goes_live_at)
         \/ /\ Unwrap(a.goes_live_at) = Unwrap(b.goes_live_at)
            /\ str_cmp(a.slug, b.slug) = "Less"
    ELSE IF IsSome(a.goes_live_at) THEN TRUE
    ELSE IF IsSome(b.goes_live_at) THEN FALSE
    ELSE str_cmp(a.slug, b.slug) = "Less"

\* C25: the sequence list_posts and list_series return is ordered by
\* goes_live_at descending with the items lacking goes_live_at last, and items
\* with equal goes_live_at (or both lacking it) in ascending slug order.
C25_ListIsOrdered ==
    (IsSome(call) /\ the_call.op \in {"list_posts", "list_series"})
       => LET items == the_call.result[1].items
          IN  \A i \in 1..(Len(items) - 1) : listed_before(items[i], items[i + 1])

\* member a may stand right before member b: a has the lesser order, or the
\* same order (or both none) and the lesser slug, or a has an order and b none
member_before(a, b) ==
    IF IsSome(a.order) /\ IsSome(b.order)
    THEN \/ Unwrap(a.order) < Unwrap(b.order)
         \/ Unwrap(a.order) = Unwrap(b.order) /\ str_cmp(a.slug, b.slug) = "Less"
    ELSE IF IsSome(a.order) THEN TRUE
    ELSE IF IsSome(b.order) THEN FALSE
    ELSE str_cmp(a.slug, b.slug) = "Less"

\* C26: the posts of get_series are ordered by order ascending, members
\* without order after those with one, and members with equal order (or both
\* without) in ascending slug order.
C26_SeriesMembersAreOrdered ==
    (IsSome(call) /\ the_call.op = "get_series" /\ IsSome(the_call.result))
       => LET posts == Unwrap(the_call.result).posts
          IN  \A i \in 1..(Len(posts) - 1) : member_before(posts[i], posts[i + 1])

\* the slugs of the items of a list result
slugs_of(items) == {items[i].slug : i \in 1..Len(items)}

\* C27: a list result holds an item without goes_live_at if and only if
\* include_drafts is set, an item with goes_live_at later than now if and only
\* if include_scheduled is set, and every item with goes_live_at at or before
\* now, for the four combinations of the flags. (Of a page, every item passes
\* this filter; a call with the default limit and offset returns all that do.)
C27_FlagsDecideVisibility ==
    (IsSome(call) /\ the_call.op \in {"list_posts", "list_series"})
       => LET opts == the_call.opts
              items == the_call.result[1].items
              drafts == {k \in DOMAIN listed_map : ~IsSome(listed_map[k].goes_live_at)}
              scheduled == {k \in DOMAIN listed_map \ drafts :
                               Unwrap(listed_map[k].goes_live_at) > the_call.now}
              live == (DOMAIN listed_map \ drafts) \ scheduled
              shown == (IF opts.include_drafts THEN drafts ELSE {})
                       \cup (IF opts.include_scheduled THEN scheduled ELSE {})
                       \cup live
          IN  /\ slugs_of(items) \subseteq shown
              /\ (~IsSome(opts.limit) /\ ~IsSome(opts.offset)) => slugs_of(items) = shown

\* C27 witness: of a draft, a scheduled and a live post, include_drafts alone
\* lists the draft and the live one
C27_Witness_DraftsWithoutScheduled ==
    /\ IsSome(call)
    /\ the_call.op = "list_posts"
    /\ the_call.opts.include_drafts
    /\ ~the_call.opts.include_scheduled
    /\ the_call.now = 2
    /\ DOMAIN content_cache.posts = {slug_a, slug_b, slug_c}
    /\ content_cache.posts[slug_a].goes_live_at = Some(3)
    /\ content_cache.posts[slug_b].goes_live_at = Some(1)
    /\ content_cache.posts[slug_c].goes_live_at = None
    /\ slugs_of(the_call.result[1].items) = {slug_b, slug_c}

\* ------------------------------------------------------------------------
\* security::is_safe_ip on its own: one address, checked once
\* ------------------------------------------------------------------------

\* first and second octets on both sides of every boundary is_safe_ip tests
V4Firsts == {0, 9, 10, 11, 100, 126, 127, 128, 169, 172, 192, 223, 224, 239, 240, 255}

V4Seconds == {0, 15, 16, 31, 32, 63, 64, 127, 128, 168, 254, 255}

V4Addrs == {V4(a, b, c, d) : a \in V4Firsts, b \in V4Seconds, c \in {0, 169}, d \in {0, 1, 254}}

\* first segments on both sides of fc00::/7, fe80::/10, fec0::/10 and ff00::/8,
\* with 0 (:: and ::1), 64 (64:ff9b::) and 2606
V6Firsts ==
    {0, 100, 9734, 64511, 64512, 65023, 65024, 65151, 65152, 65215, 65216, 65279, 65280,
     65282, 65535}

\* Ipv4Addr::to_ipv6_mapped
to_ipv6_mapped(ip) ==
    V6(<<0, 0, 0, 0, 0, 65535, ip.octets[1] * 256 + ip.octets[2],
         ip.octets[3] * 256 + ip.octets[4]>>)

\* IPv6 addresses: plain ones, the IPv4-mapped form of every IPv4 address, and
\* near misses of the mapped form (IPv4-compatible ::a.b.c.d, ::1:ffff:a.b.c.d)
V6Addrs ==
    {V6(<<s, 0, 0, 0, 0, 0, 0, t>>) : s \in V6Firsts, t \in {0, 1}}
    \cup {to_ipv6_mapped(ip) : ip \in V4Addrs}
    \cup {V6(<<0, 0, 0, 0, f, g, 32513, 1>>) : f \in {0, 1}, g \in {0, 65535}}

IpAddrs == V4Addrs \cup V6Addrs

InitSecurity ==
    /\ checked_ip \in IpAddrs
    /\ ip_safe = None
    /\ config = [auth |-> None, git |-> None]
    /\ env = <<>>
    /\ request = no_request
    /\ response = None
    /\ wire = None
    /\ handler = "idle"
    /\ child = no_child
    /\ stdin_task = no_stdin_task
    /\ stderr_task = "none"
    /\ completion = no_completion
    /\ post_push = no_post_push
    /\ auth_checks = 0
    /\ reloads = 0
    /\ webhooks_fired = 0
    /\ IndexUnused
    /\ ApiUnused
    /\ WebhookUnused
    /\ ContentUnused

\* security::is_safe_ip(&checked_ip)
IsSafeIp ==
    /\ ip_safe = None
    /\ ip_safe' = Some(is_safe_ip(checked_ip))
    /\ UNCHANGED <<checked_ip, config, env, gitVars, indexVars, apiVars, webhookVars, contentVars>>

NextSecurity == IsSafeIp

SpecSecurity == InitSecurity /\ [][NextSecurity]_vars

\* an address whose first 16 bits are hi lies in the network whose first 16
\* bits are net and whose prefix has at most 16 bits
in_net(hi, net, prefix) == hi \div 2 ^ (16 - prefix) = net \div 2 ^ (16 - prefix)

\* the IPv4 addresses named unsafe: 127/8, 0.0.0.0, 224/4, 10/8, 172.16/12,
\* 192.168/16, 169.254/16, 100.64/10
unsafe_v4(o) ==
    LET hi == o[1] * 256 + o[2]
    IN  \/ in_net(hi, 127 * 256, 8)
        \/ o = <<0, 0, 0, 0>>
        \/ in_net(hi, 224 * 256, 4)
        \/ in_net(hi, 10 * 256, 8)
        \/ in_net(hi, 172 * 256 + 16, 12)
        \/ in_net(hi, 192 * 256 + 168, 16)
        \/ in_net(hi, 169 * 256 + 254, 16)
        \/ in_net(hi, 100 * 256 + 64, 10)

\* the IPv6 addresses named unsafe: ::1, ::, ff00::/8, fc00::/7, fe80::/10,
\* fec0::/10
unsafe_v6(s) ==
    \/ s = <<0, 0, 0, 0, 0, 0, 0, 1>>
    \/ s = <<0, 0, 0, 0, 0, 0, 0, 0>>
    \/ in_net(s[1], 65280, 8)
    \/ in_net(s[1], 64512, 7)
    \/ in_net(s[1], 65152, 10)
    \/ in_net(s[1], 65216, 10)

\* ::ffff:a.b.c.d
is_mapped(s) == \A i \in 1..5 : s[i] = 0 /\ s[6] = 65535

\* C28: is_safe_ip returns false exactly for loopback, unspecified and
\* multicast addresses and for the addresses of 10/8, 172.16/12, 192.168/16,
\* 169.254/16, 100.64/10, fc00::/7, fe80::/10 and fec0::/10, true for every
\* other address, and for ::ffff:X what it returns for the IPv4 address X.
C28_SafeIpTable ==
    IsSome(ip_safe)
       => IF checked_ip.v = 4 THEN Unwrap(ip_safe) = ~unsafe_v4(checked_ip.octets)
          ELSE IF is_mapped(checked_ip.segments)
               THEN LET s == checked_ip.segments
                    IN  Unwrap(ip_safe) = ~unsafe_v4(<<s[7] \div 256, s[7] % 256,
                                                    s[8] \div 256, s[8] % 256>>)
          ELSE Unwrap(ip_safe) = ~unsafe_v6(checked_ip.segments)

\* C28 witness: ::ffff:172.31.0.1 was checked and found unsafe
C28_Witness_MappedPrivate ==
    /\ checked_ip = V6(<<0, 0, 0, 0, 0, 65535, 172 * 256 + 31, 1>>)
    /\ ip_safe = Some(FALSE)

\* ------------------------------------------------------------------------
\* The loaded index: series and their members
\* ------------------------------------------------------------------------

\* C29: in every loaded index each member slug of each series resolves to a
\* Post of the post map whose series_slug is that series' slug, also when a
\* standalone post has the directory name of a member.
C29_MembersBelongToTheirSeries ==
    \A s \in DOMAIN content_cache.series :
       \A i \in 1..Len(content_cache.series[s].post_slugs) :
          LET member == content_cache.series[s].post_slugs[i]
          IN  /\ member \in DOMAIN content_cache.posts
              /\ content_cache.posts[member].series_slug = Some(s)

\* ------------------------------------------------------------------------
\* After a push (checked under SpecGitFair)
\* ------------------------------------------------------------------------

\* the child of a git-receive-pack request has exited with status 0 and was
\* not killed by the timeout
push_succeeded ==
    /\ is_write_operation(request.path)
    /\ child.state = "exited"
    /\ child.success

\* C30: after a git-receive-pack request whose child exits successfully within
\* the timeout, under fair scheduling the index is eventually replaced by one
\* loaded after the push and every configured webhook URL with a safe address
\* eventually receives a POST. The index is replaced only by RileyCms::refresh
\* and a POST is sent only by RileyCms::fire_webhooks, so both are eventually
\* called by the post-push task.
C30_PushLeadsToReloadAndWebhooks ==
    push_succeeded ~> (reloads > 0 /\ webhooks_fired > 0)

\* ------------------------------------------------------------------------
\* Reloads of the index (checked under SpecIndex)
\* ------------------------------------------------------------------------

\* the refresh call of push p has loaded the content tree and has not yet
\* replaced the index and returned
reload_holds_index(p) == refresh_task[p].pc \in {"write_lock", "assign", "unlock"}

\* C31: at most one reload is in progress at any time: of two refresh calls the
\* second does not load the content tree until the first has replaced the
\* index, so no two calls hold a loaded index at once.
C31_OneReloadAtATime ==
    \A p, q \in 1..MaxPushes : (reload_holds_index(p) /\ reload_holds_index(q)) => p = q

\* ------------------------------------------------------------------------
\* The order of the post-push task (checked under SpecGit)
\* ------------------------------------------------------------------------

\* C32: for one push no webhook is sent before that push's refresh call has
\* returned: fire_webhooks is called only after wait has returned a clean exit
\* of the child and refresh has finished.
C32_WebhooksAfterRefresh ==
    /\ [](webhooks_fired > 0
            => /\ reloads >= webhooks_fired
               /\ child.state = "exited"
               /\ child.success
               /\ child.owner = "reaped"
               /\ ~post_push.failed)
    /\ [][webhooks_fired' # webhooks_fired => reloads = webhooks_fired + 1 /\ reloads' = reloads]_vars

\* C32 witness: refresh was called, then fire_webhooks
C32_Witness_ReloadedThenFired ==
    /\ reloads = 1
    /\ webhooks_fired = 1
    /\ post_push.pc = "done"

\* the stdin-feeder task ended with a body-too-large or a body-stream error
stdin_task_failed ==
    /\ stdin_task.pc = "finished"
    /\ stdin_task.result = "err"
    /\ (body_over_limit \/ stdin_task.err = body_stream_error)

\* C33: if the stdin-feeder task ended with a body-too-large or body-stream
\* error, wait returns that error rather than the child's exit status, so the
\* request is never treated as a clean exit: wait does not return Ok, nothing
\* is reloaded and no webhook is fired.
C33_StdinErrorIsNoCleanExit ==
    stdin_task_failed
       => /\ post_push.pc \notin {"join_stderr", "refresh", "fire_webhooks"}
          /\ reloads = 0
          /\ webhooks_fired = 0

\* GitCgiCompletion::wait has returned to the post-push task
wait_returned == post_push.pc \in {"refresh", "fire_webhooks", "done"}

\* C34: when wait returns, on every path including the timeout and a failed
\* process wait, the stdin-feeder task has finished and been joined, the child
\* has exited or been killed and been reaped, and the stderr-collector task has
\* finished.
C34_WaitSettlesTheTriple ==
    wait_returned
       => /\ stdin_task.pc = "finished"
          /\ ~completion.stdin_task
          /\ child.state \in {"exited", "killed"}
          /\ child.owner = "reaped"
          /\ stderr_task = "finished"

\* ------------------------------------------------------------------------
\* A client that may never finish its request body
\* ------------------------------------------------------------------------

\* the steps of the server that wait for nothing but the runtime and the
\* clock: tasks are scheduled fairly, the stderr pipe reaches EOF or its cap,
\* timeout() fires. The end of the body stream is the client's step.
GitRuntimeSteps ==
    \/ StderrTaskFinish
    \/ RunCgiReturn
    \/ \E outcome \in {"exited", "wait_failed", "timed_out"} : PostPushWaitChild(outcome)
    \/ PostPushJoinStdin
    \/ PostPushJoinStderr
    \/ \E ok \in BOOLEAN : PostPushRefresh(ok)
    \/ PostPushFireWebhooks
    \/ OrphanReap

\* SpecGit under fair scheduling of the server, with a client that is free to
\* stall: neither the child nor the body stream is bound to make a step
SpecGitStalledClient == SpecGit /\ WF_vars(GitRuntimeSteps)

\* GitCgiCompletion::wait has been called by the post-push task
wait_called == post_push.pc # "none"

\* C35: from the moment wait(timeout) is called, by the time the timeout has
\* elapsed the child has exited or been killed and wait has returned, even if
\* the client never finishes sending the request body: a call of wait leads
\* to its return.
C35_WaitReturnsDespiteStalledBody ==
    wait_called ~> wait_returned

\* ------------------------------------------------------------------------
\* The ETag of a response (checked under SpecIndex)
\* ------------------------------------------------------------------------

\* the handler of reader r has its content and the etag: the response is built
response_built(r) ==
    /\ reader[r].pc = "done"
    /\ reader[r].op = "content_etag"
    /\ reader[r].body # <<>>

\* C36: in every response that carries an ETag, the ETag is the etag of the
\* index from which the response body was computed, also when a refresh
\* replaces the index between the handler's read of the content and its read
\* of the etag.
C36_EtagOfTheBodysIndex ==
    \A r \in 1..MaxReaders :
       response_built(r)
          => \A i \in 1..Len(reader[r].body) :
                ContentCache_load(reader[r].body[i]).etag = reader[r].seen[1]

\* ------------------------------------------------------------------------
\* The members of a series in a public response (checked under SpecApi)
\* ------------------------------------------------------------------------

\* C37: a response to a Public caller never contains the slug, title or any
\* other field of a Draft or Scheduled post: GET /api/v1/series/{slug} of a Live
\* series lists among its posts only members that are Live.
C37_PublicSeriesListsLiveMembers ==
    (/\ api_pc = "done"
     /\ auth_status = Public
     /\ api_request.route = "get_series"
     /\ Unwrap(api_response).status = 200)
       => LET members == Unwrap(api_response).body.data[1].posts
          IN  \A i \in 1..Len(members) :
                 ~is_hidden(members[i].goes_live_at, api_request.handled_at)

\* ------------------------------------------------------------------------
\* A child that closes stdout early (checked under SpecGit)
\* ------------------------------------------------------------------------

\* the child has closed stdout and what it wrote is either nothing or the
\* lone Status line: no empty separator line was emitted
closed_before_separator ==
    /\ child.state # "running"
    /\ child.stdout \in {<<>>, status_line_then_eof}

C39_WebhooksDespiteFailedRefresh ==
    /\ [](post_push.refresh_failed
            => /\ child.success
               /\ post_push.pc \in {"fire_webhooks", "done"}
               /\ (post_push.pc = "done" => webhooks_fired = 1))
    /\ [][(post_push.pc = "refresh" /\ post_push'.pc # "refresh")
             => post_push'.pc = "fire_webhooks"]_vars

\* C39 witness: refresh failed and fire_webhooks was called all the same
C39_Witness_FiredAfterFailedRefresh ==
    /\ post_push.refresh_failed
    /\ post_push.pc = "done"
    /\ reloads = 1
    /\ webhooks_fired = 1

====
